---- MODULE Spec2Model ----
(***************************************************************************)
(* Model of gget's parallel download orchestrator (src/src/parallel.rs):   *)
(* DownloadManager::queue_download, DownloadManager::process_queue, the    *)
(* execution units it spawns and DownloadManager::download_with_retry.     *)
(*                                                                         *)
(* process_queue is an async function: it is modelled as a process whose   *)
(* position `pc` moves from one await point to the next.  Every unit that  *)
(* tokio::spawn creates is a process of its own (`unit_pc`), scheduled     *)
(* independently of the others, as on tokio's multi-thread runtime         *)
(* (src/src/main.rs:7).                                                    *)
(*                                                                         *)
(* The module also models the cache (src/src/cache.rs), the dependency     *)
(* resolver, the import extraction and the directory walk                  *)
(* (src/src/dependency.rs), the package downloads, the downloads with      *)
(* dependencies and concurrent atomic downloads (src/src/fetch.rs), and    *)
(* concurrent process_queue calls on one manager; each has its own         *)
(* variables, and each specification starts the others idle and leaves     *)
(* them alone.                                                             *)
(***************************************************************************)
EXTENDS Integers, Sequences, FiniteSets, TLC

\* ---------------------------------------------------------------- bounds
MaxTasks == 2          \* tasks the caller queues in one run
MaxPriority == 1       \* DownloadTask.priority is a u8; the model uses 0..MaxPriority
MaxAttempts == 2       \* RetryConfig.max_attempts ranges over 0..MaxAttempts
MaxKeys == 2           \* cache keys
MaxValues == 2         \* cached contents
MaxCallers == 2        \* concurrent callers of one cache
MaxTime == 2           \* the clock runs over 0..MaxTime seconds, and so does the TTL
MaxInstances == 2      \* HybridCache instances opened one after the other on a directory
MaxPackages == 3       \* package names; a package map holds 1..MaxPackages packages
MaxImports == 2        \* import specs of a source text
MaxEntries == 3        \* files and directories under a walked directory
MaxBackoff == 3        \* initial_backoff and max_backoff range over 1..MaxBackoff seconds
MaxMultiplier == 2     \* RetryConfig.multiplier ranges over 1..MaxMultiplier
MaxBatch == 257        \* packages in the list of download_packages_parallel

\* ------------------------------------------------------ program constants
ChannelCapacity == 100         \* mpsc::channel(100)
DefaultMaxAttempts == 3        \* max_attempts: 3
DefaultInitialBackoff == 1     \* Duration::from_secs(1)
DefaultMaxBackoff == 30        \* Duration::from_secs(30)
DefaultMultiplier == 2         \* multiplier: 2.0
U8Values == 256                \* pub priority: u8

PackageIds == 1..MaxTasks
Priorities == 0..MaxPriority

\* RetryConfig::default()
DefaultRetryConfig ==
    [max_attempts |-> DefaultMaxAttempts, initial_backoff |-> DefaultInitialBackoff,
     max_backoff |-> DefaultMaxBackoff, multiplier |-> DefaultMultiplier]

\* RetryConfig values of a single task: the default with max_attempts varied
RetryConfigs == {[DefaultRetryConfig EXCEPT !.max_attempts = m] : m \in 0..MaxAttempts}

\* Behaviours of the caller's closure for one package: it fails on its first
\* `fails` calls, and on the next call it succeeds, or panics if `panics`
MaxFails == MaxAttempts + 1
Plans == [fails : 0..MaxFails, panics : BOOLEAN]

\* The behaviours used when several tasks run together: success at once,
\* failure on every attempt, a panic on the first call
BatchPlans ==
    {[fails |-> 0, panics |-> FALSE], [fails |-> DefaultMaxAttempts, panics |-> FALSE],
     [fails |-> 0, panics |-> TRUE]}

NoTask ==
    [package_id |-> 0, priority |-> 0,
     retry_config |-> [max_attempts |-> 0, initial_backoff |-> 0,
                       max_backoff |-> 0, multiplier |-> 0]]
NoSummary == [total_packages |-> -1]

VARIABLES
    pending,          \* tasks the caller has still to pass to queue_download
    download_fn,      \* behaviour of the caller's closure, per package id
    max_concurrent,   \* argument of DownloadManager::new
    permits,          \* DownloadManager.semaphore: available permits
    waiters,          \* DownloadManager.semaphore: units waiting, in FIFO order
    queue,            \* DownloadManager.queue
    updates,          \* every ProgressUpdate sent on ProgressTracker.update_tx, in order
    buffered,         \* number of updates sitting in the channel, not yet received
    pc,               \* position of the process_queue call
    task,             \* process_queue: the task just popped
    total_packages,   \* process_queue: local total_packages
    handles,          \* process_queue: local handles (package ids, in spawn order)
    joined,           \* process_queue: number of handles already awaited
    successful,       \* process_queue: local successful
    failed,           \* process_queue: local failed
    summary,          \* the DownloadSummary returned, NoSummary before the return
    unit_pc,          \* position of each spawned unit
    unit_task,        \* the task moved into each spawned unit
    attempts,         \* download_with_retry: local attempts, per unit
    backoff,          \* download_with_retry: local backoff, per unit
    waits,            \* the durations each unit has slept, in order
    result,           \* the value each unit's future resolves to
    calls,            \* number of times download_fn was invoked, per package id
    execution_order   \* package ids in the order of their first download_fn call

caller_vars == <<pending, download_fn, max_concurrent>>
sem_vars == <<permits, waiters>>
chan_vars == <<updates, buffered>>
pq_vars == <<pc, task, total_packages, handles, joined, successful, failed, summary>>
retry_vars == <<attempts, backoff, waits, calls, execution_order>>
parallel_vars == <<pending, download_fn, max_concurrent, permits, waiters, queue, updates,
                   buffered, pc, task, total_packages, handles, joined, successful, failed,
                   summary, unit_pc, unit_task, attempts, backoff, waits, result, calls,
                   execution_order>>

\* ------------------------------------------------- the cache (src/src/cache.rs)
\* Time is counted in whole seconds, as DiskStorage::now_ts does.  A cache key
\* stands for its file: entry_path names the file by the key's blake3 digest.
Keys == 1..MaxKeys
Values == 1..MaxValues
Callers == 1..MaxCallers

NoEntry == [content |-> 0, timestamp |-> 0, ttl |-> 0]      \* no file at the path
TornEntry == [content |-> -1, timestamp |-> 0, ttl |-> 0]   \* a file that holds no whole entry
NoMem == [value |-> 0, inserted |-> 0]                      \* no entry in the MemCache
NoSet == [value |-> 0, timestamp |-> 0, instance |-> 0]     \* set was never called
NoOp ==
    [kind |-> "none", pc |-> "none", key |-> 0, value |-> 0, began |-> 0,
     now |-> 0, todo |-> {}, ret |-> [tag |-> "Pending", value |-> 0]]

VARIABLES
    now,              \* the clock, in seconds
    api,              \* what the callers use: "disk" (a DiskStorage) or "hybrid" (a HybridCache)
    callers,          \* number of callers that may have a call in flight
    default_ttl,      \* DiskStorage.default_ttl, also the MemCache's time_to_live
    disk,             \* the cache directory: the CacheEntry in each key's file
    mem,              \* HybridCache.mem: value and insertion time per key
    lock,             \* DiskStorage.lock: 0, or the caller whose cleanup holds it
    instance,         \* number of HybridCache instances opened on the directory so far
    op,               \* the call each caller has in flight or has last completed
    last_set          \* per key, the most recent set: value, timestamp, instance

cache_vars == <<now, api, callers, default_ttl, disk, mem, lock, instance, op, last_set>>

\* --------------------------- the dependency resolver (src/src/dependency.rs)
\* Package names are numbers.  The packages of a map are 1..n, numbered in the
\* order in which the HashMap yields them, which is the order of the IndexMaps
\* of the graph; a name above n is a package the map does not hold.
PackageNames == 1..MaxPackages

VARIABLES
    packages,         \* the argument of generate_deployment_order: imports per package
    in_degree,        \* DependencyGraph.in_degree, then TopoSort::resolve's local copy
    adj,              \* DependencyGraph.adj
    topo_queue,       \* TopoSort::resolve: local queue
    order,            \* TopoSort::resolve: local order, the value returned
    dep_pc,           \* position of the generate_deployment_order call
    input,            \* the packages under the names the caller gave them
    yield_order,      \* the names in the order in which this run's HashMap yields them
    first_order,      \* the order an earlier call returned, in the caller's names
    run               \* number of the generate_deployment_order call on this input

\* What one call of generate_deployment_order reads and writes, and what stays
\* the same from one call to the next
call_vars == <<packages, in_degree, adj, topo_queue, order, dep_pc>>
input_vars == <<input, yield_order, first_order, run>>
dep_vars == <<call_vars, input_vars>>

\* ------------------------------- source analysis (src/src/dependency.rs)
\* A text is a sequence of characters; the characters of a segment that the code
\* never looks into are written as one element.
GNO_LAND_PREFIX == <<"gno.land", "/">>
GNO_FILE_EXTENSION == "gno"

NoSource == [package |-> "", imports |-> <<>>]
NoExtract == [tag |-> "Pending", package_name |-> "", imports |-> {}]
NoWalk == [tag |-> "Pending", error |-> ""]

VARIABLES
    source_code,      \* extract_dependencies: the source text, as its clauses
    extracted,        \* extract_dependencies: the value returned
    tree,             \* the entries under the directory, in the order of the walk
    visited,          \* number of entries the walk has gone through
    found,            \* extract_dependencies_from_directory: local packages
    walk_ret          \* extract_dependencies_from_directory: the value returned

extract_vars == <<source_code, extracted>>
walk_vars == <<tree, visited, found, walk_ret>>
analysis_vars == <<extract_vars, walk_vars>>

\* ------------------------------------ package downloads (src/src/fetch.rs)
NoDir == [exists |-> FALSE, files |-> {}]                   \* no directory at the path
NoFetch == [tag |-> "Pending", error |-> "", step |-> ""]

VARIABLES
    remote,           \* the file list of the package on the chain
    target_dir,       \* the directory at target_dir and the files in it
    temp_dir,         \* the directory at temp_dir and the files in it
    parent_exists,    \* whether the parent of target_dir exists
    before,           \* target_dir as it was when the call was made
    entry_point,      \* the function called: download_package_atomic or download_package
    fetch_pc,         \* position of the call
    files,            \* download_package: the files still to fetch
    fetch_ret         \* the value returned

fetch_vars ==
    <<remote, target_dir, temp_dir, parent_exists, before, entry_point, fetch_pc,
      files, fetch_ret>>

\* ------------------- downloads with dependencies (src/src/fetch.rs, 202-415)
NoAnalysis == [tag |-> "None", package |-> 0, imports |-> {}]
NoResolve == [tag |-> "Pending"]

VARIABLES
    registry,         \* the chain: for each package path, the gno.land imports of its files
    package,          \* download_with_deps_parallel: the package asked for
    to_analyze,       \* resolve_all_dependencies: local to_analyze
    analyzed,         \* resolve_all_dependencies: local analyzed
    all_deps,         \* resolve_all_dependencies: local all_deps
    analysis,         \* the value of the analyze_package_dependencies call in progress
    analysis_count,   \* how many times analyze_package_dependencies was called per package
    resolve_ret,      \* the value resolve_all_dependencies returned
    batch_packages,   \* download_packages_parallel: the argument packages
    batch_queue,      \* the queue of the DownloadManager of download_packages_parallel
    batch_pc          \* position of the call

batch_vars ==
    <<registry, package, to_analyze, analyzed, all_deps, analysis, analysis_count,
      resolve_ret, batch_packages, batch_queue, batch_pc>>

\* ------- concurrent download_package_atomic calls (src/src/fetch.rs, 127-177)
VARIABLES
    file_system,      \* the file system: the directory at each path and the files in it
    race_target,      \* per call: the argument target_dir
    race_stamp,       \* per call: the timestamp read for the name of temp_dir
    race_pc,          \* per call: position
    race_ret          \* per call: the value returned

race_vars == <<file_system, race_target, race_stamp, race_pc, race_ret>>

\* ----- concurrent process_queue calls on one DownloadManager (src/src/parallel.rs)
VARIABLES
    shared_queue,     \* DownloadManager.queue
    queue_lock,       \* the holder of the Mutex of DownloadManager.queue, 0 when free
    producer,         \* the tasks a caller has still to pass to queue_download
    drain_pc,         \* per process_queue call: position
    drain_task,       \* per process_queue call: local task
    drain_total,      \* per process_queue call: local total_packages
    drain_handles,    \* per process_queue call: local handles (the package ids)
    drain_summary     \* per process_queue call: total_packages of the summary returned

drain_vars ==
    <<shared_queue, queue_lock, producer, drain_pc, drain_task, drain_total,
      drain_handles, drain_summary>>

\* What an action of one source module leaves alone
later_vars == <<batch_vars, race_vars, drain_vars>>
first_vars == <<parallel_vars, cache_vars, dep_vars, analysis_vars, fetch_vars>>
not_parallel == <<cache_vars, dep_vars, analysis_vars, fetch_vars, later_vars>>
not_cache == <<parallel_vars, dep_vars, analysis_vars, fetch_vars, later_vars>>
not_dependency == <<parallel_vars, cache_vars, analysis_vars, fetch_vars, later_vars>>
not_analysis == <<parallel_vars, cache_vars, dep_vars, fetch_vars, later_vars>>
not_fetch == <<parallel_vars, cache_vars, dep_vars, analysis_vars, later_vars>>
not_batch == <<first_vars, race_vars, drain_vars>>
not_race == <<first_vars, batch_vars, drain_vars>>
not_drain == <<first_vars, batch_vars, race_vars>>

vars == <<first_vars, later_vars>>

\* No download with dependencies is in progress
BatchIdle ==
    /\ registry = <<>>
    /\ package = 0
    /\ to_analyze = <<>>
    /\ analyzed = {}
    /\ all_deps = <<>>
    /\ analysis = NoAnalysis
    /\ analysis_count = <<>>
    /\ resolve_ret = NoResolve
    /\ batch_packages = <<>>
    /\ batch_queue = <<>>
    /\ batch_pc = "idle"

\* No concurrent atomic downloads are in progress
RaceIdle ==
    /\ file_system = <<>>
    /\ race_target = <<>>
    /\ race_stamp = <<>>
    /\ race_pc = <<>>
    /\ race_ret = <<>>

\* No concurrent drains are in progress
DrainIdle ==
    /\ shared_queue = <<>>
    /\ queue_lock = 0
    /\ producer = <<>>
    /\ drain_pc = <<>>
    /\ drain_task = <<>>
    /\ drain_total = <<>>
    /\ drain_handles = <<>>
    /\ drain_summary = <<>>

\* Only the modules of the earlier sections are at work
LaterIdle == BatchIdle /\ RaceIdle /\ DrainIdle

\* No package is being downloaded
FetchIdle ==
    /\ remote = <<>>
    /\ target_dir = NoDir
    /\ temp_dir = NoDir
    /\ parent_exists = FALSE
    /\ before = NoDir
    /\ entry_point = "none"
    /\ fetch_pc = "idle"
    /\ files = <<>>
    /\ fetch_ret = NoFetch

\* No source is being analysed
AnalysisIdle ==
    /\ source_code = NoSource
    /\ extracted = NoExtract
    /\ tree = <<>>
    /\ visited = 0
    /\ found = <<>>
    /\ walk_ret = NoWalk

\* No deployment order is being computed
DepsIdle ==
    /\ packages = <<>>
    /\ in_degree = <<>>
    /\ adj = <<>>
    /\ topo_queue = <<>>
    /\ order = <<>>
    /\ dep_pc = "idle"
    /\ input = <<>>
    /\ yield_order = <<>>
    /\ first_order = <<>>
    /\ run = 0

\* No cache in use
CacheIdle ==
    /\ now = 0
    /\ api = "none"
    /\ callers = 0
    /\ default_ttl = 0
    /\ disk = [k \in Keys |-> NoEntry]
    /\ mem = [k \in Keys |-> NoMem]
    /\ lock = 0
    /\ instance = 0
    /\ op = [c \in Callers |-> NoOp]
    /\ last_set = [k \in Keys |-> NoSet]

\* ---------------------------------------------------------------- helpers
Min(a, b) == IF a <= b THEN a ELSE b

InsertAt(s, i, e) == SubSeq(s, 1, i - 1) \o <<e>> \o SubSeq(s, i, Len(s))

\* Mutant of InsertPosition: `<=` in place of `<`
InsertPositionLe(q, t) ==
    LET lower == {i \in 1..Len(q) : q[i].priority <= t.priority}
    IN  IF lower = {} THEN Len(q) + 1
        ELSE CHOOSE i \in lower : \A j \in lower : i <= j

\* queue.iter().position(|t| t.priority < task.priority).unwrap_or(queue.len()),
\* as a 1-based index
InsertPosition(q, t) ==
    LET lower == {i \in 1..Len(q) : q[i].priority < t.priority}
    IN  IF lower = {} THEN Len(q) + 1
        ELSE CHOOSE i \in lower : \A j \in lower : i <= j

\* Display of DownloadError (the #[error(...)] attributes)
ErrorText(e) ==
    CASE e = "MaxRetriesExceeded" -> "Max retries exceeded"
      [] e = "Network(Task panic)" -> "Network error: Task panic"
      [] OTHER -> e

\* What the caller's closure does on its n-th invocation for a package: it fails
\* on the first plan.fails invocations, then succeeds, or panics if plan.panics.
Outcome(plan, n) ==
    IF n <= plan.fails THEN "Err"
    ELSE IF plan.panics THEN "Panic" ELSE "Ok"

\* Duration::mul_f64 panics when the product is negative
MulF64Panics(d, m) == d * m < 0

\* backoff = min(backoff.mul_f64(multiplier), max_backoff)
NextBackoff(b, cfg) == Min(b * cfg.multiplier, cfg.max_backoff)

\* Mutant of RetryArm: gives up one attempt early
RetryArmEarly(outcome, n, cfg) ==
    IF outcome = "Ok" THEN "return_ok"
    ELSE IF n + 1 >= cfg.max_attempts THEN "return_max_retries"
    ELSE "retry"

\* Mutant of RetryArm: `>` in place of `>=`, one attempt too many
RetryArmLate(outcome, n, cfg) ==
    IF outcome = "Ok" THEN "return_ok"
    ELSE IF n > cfg.max_attempts THEN "return_max_retries"
    ELSE "retry"

\* The arm of the match in download_with_retry that an outcome selects
RetryArm(outcome, n, cfg) ==
    IF outcome = "Ok" THEN "return_ok"
    ELSE IF n >= cfg.max_attempts THEN "return_max_retries"
    ELSE "retry"

\* Dropping a unit's permit (tokio's fair semaphore): the permit goes to the
\* longest-waiting unit if there is one, back to the pool otherwise.  `upc` is
\* unit_pc with the dropping unit already moved to its final position.
PermitsAfterDrop == IF waiters = <<>> THEN permits + 1 ELSE permits
WaitersAfterDrop == IF waiters = <<>> THEN waiters ELSE Tail(waiters)
UnitPcAfterDrop(upc) ==
    IF waiters = <<>> THEN upc ELSE [upc EXCEPT ![Head(waiters)] = "running"]

\* ------------------------------------------------------------------- Init
\* What a run starts from once the caller has chosen its tasks, its closure and
\* the pool size; `earlier` are the updates that earlier process_queue calls on
\* the same manager sent and that nothing has received
StartFrom(tasks, plans, n, earlier) ==
    /\ pending = tasks
    /\ download_fn = plans
    /\ max_concurrent = n
    /\ permits = max_concurrent
    /\ waiters = <<>>
    /\ queue = <<>>
    /\ updates = earlier
    /\ buffered = Len(earlier)
    /\ pc = "idle"
    /\ task = NoTask
    /\ total_packages = 0
    /\ handles = <<>>
    /\ joined = 0
    /\ successful = 0
    /\ failed = <<>>
    /\ summary = NoSummary
    /\ unit_pc = [p \in PackageIds |-> "none"]
    /\ unit_task = [p \in PackageIds |-> NoTask]
    /\ attempts = [p \in PackageIds |-> 0]
    /\ backoff = [p \in PackageIds |-> 0]
    /\ waits = [p \in PackageIds |-> <<>>]
    /\ result = [p \in PackageIds |-> "None"]
    /\ calls = [p \in PackageIds |-> 0]
    /\ execution_order = <<>>

\* A run on a manager just built by DownloadManager::new
Start(tasks, plans, n) == StartFrom(tasks, plans, n, <<>>)

\* A batch of up to MaxTasks tasks with the default retry configuration
Init ==
    /\ CacheIdle
    /\ DepsIdle
    /\ AnalysisIdle
    /\ FetchIdle
    /\ LaterIdle
    /\ \E n \in 1..MaxTasks :
        \E prio \in [1..n -> Priorities], plans \in [1..n -> BatchPlans],
           m \in 0..MaxTasks :
            Start([i \in 1..n |-> [package_id |-> i, priority |-> prio[i],
                                   retry_config |-> DefaultRetryConfig]],
                  plans, m)

\* A single task, with any retry configuration and any behaviour of the closure
InitRetry ==
    /\ CacheIdle
    /\ DepsIdle
    /\ AnalysisIdle
    /\ FetchIdle
    /\ LaterIdle
    /\ \E prio \in Priorities, cfg \in RetryConfigs, plan \in Plans, m \in 0..1 :
        Start(<<[package_id |-> 1, priority |-> prio, retry_config |-> cfg]>>,
              <<plan>>, m)

\* The updates of `n` earlier tasks that succeeded (package id 0 stands for them)
EarlierUpdates(n) ==
    [i \in 1..(2 * n) |-> [kind |-> IF i % 2 = 1 THEN "Started" ELSE "Completed",
                           package_id |-> 0, error |-> ""]]

\* A batch on a manager that has already processed tasks and whose progress
\* channel nobody reads: the channel holds the updates of the earlier tasks
InitChannel ==
    /\ CacheIdle
    /\ DepsIdle
    /\ AnalysisIdle
    /\ FetchIdle
    /\ LaterIdle
    /\ \E n \in 1..MaxTasks, e \in (ChannelCapacity \div 2 - MaxTasks)..(ChannelCapacity \div 2) :
        \E prio \in [1..n -> Priorities], plans \in [1..n -> BatchPlans],
           m \in 1..MaxTasks :
            StartFrom([i \in 1..n |-> [package_id |-> i, priority |-> prio[i],
                                       retry_config |-> DefaultRetryConfig]],
                      plans, m, EarlierUpdates(e))

\* ---------------------------------------------------------- queue_download
QueueDownload ==
    /\ pending # <<>>
    /\ LET t == Head(pending)
       IN  queue' = InsertAt(queue, InsertPosition(queue, t), t)
    /\ pending' = Tail(pending)
    /\ UNCHANGED <<download_fn, max_concurrent, sem_vars, chan_vars, pq_vars,
                   unit_pc, unit_task, result, retry_vars>>
    /\ UNCHANGED not_parallel

\* ----------------------------------------------------------- process_queue
\* The call: start_time, download_fn, handles and total_packages are set up
ProcessQueue ==
    /\ pc = "idle"
    /\ pc' = "loop"
    /\ handles' = <<>>
    /\ total_packages' = 0
    /\ UNCHANGED <<caller_vars, sem_vars, queue, chan_vars, task, joined, successful,
                   failed, summary, unit_pc, unit_task, result, retry_vars>>
    /\ UNCHANGED not_parallel

\* queue.pop_front() returned Some(task)
PopTask ==
    /\ pc = "loop"
    /\ queue # <<>>
    /\ task' = Head(queue)
    /\ queue' = Tail(queue)
    /\ total_packages' = total_packages + 1
    /\ pc' = "started"
    /\ UNCHANGED <<caller_vars, sem_vars, chan_vars, handles, joined, successful,
                   failed, summary, unit_pc, unit_task, result, retry_vars>>
    /\ UNCHANGED not_parallel

\* progress.update(Started).await completes, the unit is spawned and its handle pushed
SpawnUnit ==
    /\ pc = "started"
    /\ buffered < ChannelCapacity
    /\ updates' = Append(updates, [kind |-> "Started", package_id |-> task.package_id,
                                   error |-> ""])
    /\ buffered' = buffered + 1
    /\ unit_pc' = [unit_pc EXCEPT ![task.package_id] = "spawned"]
    /\ unit_task' = [unit_task EXCEPT ![task.package_id] = task]
    /\ handles' = Append(handles, task.package_id)
    /\ task' = NoTask
    /\ pc' = "loop"
    /\ UNCHANGED <<caller_vars, sem_vars, queue, total_packages, joined, successful,
                   failed, summary, result, retry_vars>>
    /\ UNCHANGED not_parallel

\* queue.pop_front() returned None: break, successful and failed are set up
LoopBreak ==
    /\ pc = "loop"
    /\ queue = <<>>
    /\ successful' = 0
    /\ failed' = <<>>
    /\ joined' = 0
    /\ pc' = "join"
    /\ UNCHANGED <<caller_vars, sem_vars, queue, chan_vars, task, total_packages,
                   handles, summary, unit_pc, unit_task, result, retry_vars>>
    /\ UNCHANGED not_parallel

\* Mutant of Tally: a unit that panicked is dropped from the tally
TallySkipPanic(package_id) ==
    IF unit_pc[package_id] = "panicked"
    THEN UNCHANGED <<successful, failed>>
    ELSE IF result[package_id] = "Ok"
    THEN /\ successful' = successful + 1
         /\ UNCHANGED failed
    ELSE /\ failed' = Append(failed, [package |-> package_id,
                                      error |-> result[package_id],
                                      retry_count |-> 0])
         /\ UNCHANGED successful

\* match handle.await { Ok(Ok(_)) .. Ok(Err(e)) .. Err(e) .. } for an ended unit
Tally(package_id) ==
    IF unit_pc[package_id] = "panicked"
    THEN /\ failed' = Append(failed, [package |-> package_id,
                                      error |-> "Network(Task panic)",
                                      retry_count |-> 0])
         /\ UNCHANGED successful
    ELSE IF result[package_id] = "Ok"
    THEN /\ successful' = successful + 1
         /\ UNCHANGED failed
    ELSE /\ failed' = Append(failed, [package |-> package_id,
                                      error |-> result[package_id],
                                      retry_count |-> 0])
         /\ UNCHANGED successful

\* Mutant of Ended: the join goes on as soon as the unit has its result
EndedOrReporting(package_id) ==
    unit_pc[package_id] \in {"finished", "panicked", "reporting"}

\* handle.await yields once the unit has ended
Ended(package_id) == unit_pc[package_id] \in {"finished", "panicked"}

\* Mutant of JoinHandle: the first failed unit ends process_queue with an error
JoinHandleAbort ==
    /\ pc = "join"
    /\ joined < Len(handles)
    /\ Ended(handles[joined + 1])
    /\ Tally(handles[joined + 1])
    /\ joined' = joined + 1
    /\ pc' = IF failed' # failed THEN "done" ELSE pc
    /\ UNCHANGED <<caller_vars, sem_vars, queue, chan_vars, task, total_packages,
                   handles, summary, unit_pc, unit_task, result, retry_vars>>
    /\ UNCHANGED not_parallel

\* One iteration of `for (package_id, handle) in handles`
JoinHandle ==
    /\ pc = "join"
    /\ joined < Len(handles)
    /\ Ended(handles[joined + 1])
    /\ Tally(handles[joined + 1])
    /\ joined' = joined + 1
    /\ UNCHANGED <<caller_vars, sem_vars, queue, chan_vars, pc, task, total_packages,
                   handles, summary, unit_pc, unit_task, result, retry_vars>>
    /\ UNCHANGED not_parallel

\* Ok(DownloadSummary { .. })
Return ==
    /\ pc = "join"
    /\ joined = Len(handles)
    /\ summary' = [total_packages |-> total_packages, successful |-> successful,
                   failed |-> failed]
    /\ pc' = "done"
    /\ UNCHANGED <<caller_vars, sem_vars, queue, chan_vars, task, total_packages,
                   handles, joined, successful, failed, unit_pc, unit_task, result,
                   retry_vars>>
    /\ UNCHANGED not_parallel

\* ------------------------------------------------------- the spawned units
\* Mutant of Acquire: the unit goes on without waiting for a permit
AcquireNoWait(p) ==
    /\ unit_pc[p] = "spawned"
    /\ unit_pc' = [unit_pc EXCEPT ![p] = "running"]
    /\ permits' = IF permits > 0 THEN permits - 1 ELSE permits
    /\ attempts' = [attempts EXCEPT ![p] = 0]
    /\ backoff' = [backoff EXCEPT ![p] = unit_task[p].retry_config.initial_backoff]
    /\ UNCHANGED <<caller_vars, waiters, queue, chan_vars, pq_vars, unit_task, result,
                   waits, calls, execution_order>>
    /\ UNCHANGED not_parallel

\* permit.acquire().await: the unit takes a permit or joins the waiters; with the
\* permit it enters download_with_retry (attempts = 0, backoff = initial_backoff;
\* the two locals are not read before the unit holds the permit)
Acquire(p) ==
    /\ unit_pc[p] = "spawned"
    /\ IF permits > 0
       THEN /\ permits' = permits - 1
            /\ unit_pc' = [unit_pc EXCEPT ![p] = "running"]
            /\ UNCHANGED waiters
       ELSE /\ waiters' = Append(waiters, p)
            /\ unit_pc' = [unit_pc EXCEPT ![p] = "waiting"]
            /\ UNCHANGED permits
    /\ attempts' = [attempts EXCEPT ![p] = 0]
    /\ backoff' = [backoff EXCEPT ![p] = unit_task[p].retry_config.initial_backoff]
    /\ UNCHANGED <<caller_vars, queue, chan_vars, pq_vars, unit_task, result, waits,
                   calls, execution_order>>
    /\ UNCHANGED not_parallel

\* Mutant of Unwind: the permit is not given back
UnwindLeak(p) ==
    /\ unit_pc' = [unit_pc EXCEPT ![p] = "panicked"]
    /\ UNCHANGED sem_vars

\* A panic inside the unit: the stack unwinds, _permit is dropped and the unit's
\* JoinHandle will yield a JoinError
Unwind(p) ==
    /\ unit_pc' = UnitPcAfterDrop([unit_pc EXCEPT ![p] = "panicked"])
    /\ permits' = PermitsAfterDrop
    /\ waiters' = WaitersAfterDrop

\* One turn of the loop in download_with_retry: attempts += 1, download_fn is
\* called and its result matched
Attempt(p) ==
    /\ unit_pc[p] = "running"
    /\ LET n == attempts[p] + 1
           outcome == Outcome(download_fn[p], calls[p] + 1)
           arm == RetryArm(outcome, n, unit_task[p].retry_config)
       IN  /\ attempts' = [attempts EXCEPT ![p] = n]
           /\ calls' = [calls EXCEPT ![p] = @ + 1]
           /\ execution_order' = IF calls[p] = 0 THEN Append(execution_order, p)
                                 ELSE execution_order
           /\ IF outcome = "Panic"
              THEN /\ Unwind(p)
                   /\ UNCHANGED result
              ELSE /\ unit_pc' = [unit_pc EXCEPT ![p] =
                                    IF arm = "retry" THEN "sleeping" ELSE "reporting"]
                   /\ result' = [result EXCEPT ![p] =
                                    CASE arm = "return_ok" -> "Ok"
                                      [] arm = "return_max_retries" -> "MaxRetriesExceeded"
                                      [] OTHER -> @]
                   /\ UNCHANGED sem_vars
    /\ UNCHANGED <<caller_vars, queue, chan_vars, pq_vars, unit_task, backoff, waits>>
    /\ UNCHANGED not_parallel

\* tokio::time::sleep(backoff).await ends and the backoff is updated
Backoff(p) ==
    /\ unit_pc[p] = "sleeping"
    /\ waits' = [waits EXCEPT ![p] = Append(@, backoff[p])]
    /\ LET cfg == unit_task[p].retry_config
       IN  IF MulF64Panics(backoff[p], cfg.multiplier)
           THEN /\ Unwind(p)
                /\ UNCHANGED backoff
           ELSE /\ backoff' = [backoff EXCEPT ![p] = NextBackoff(@, cfg)]
                /\ unit_pc' = [unit_pc EXCEPT ![p] = "running"]
                /\ UNCHANGED sem_vars
    /\ UNCHANGED <<caller_vars, queue, chan_vars, pq_vars, unit_task, result, attempts,
                   calls, execution_order>>
    /\ UNCHANGED not_parallel

\* progress.update(Completed | Failed).await completes; the unit returns its
\* result and _permit is dropped
Report(p) ==
    /\ unit_pc[p] = "reporting"
    /\ buffered < ChannelCapacity
    /\ updates' = Append(updates,
                    IF result[p] = "Ok"
                    THEN [kind |-> "Completed", package_id |-> p, error |-> ""]
                    ELSE [kind |-> "Failed", package_id |-> p,
                          error |-> ErrorText(result[p])])
    /\ buffered' = buffered + 1
    /\ unit_pc' = UnitPcAfterDrop([unit_pc EXCEPT ![p] = "finished"])
    /\ permits' = PermitsAfterDrop
    /\ waiters' = WaitersAfterDrop
    /\ UNCHANGED <<caller_vars, queue, pq_vars, unit_task, result, retry_vars>>
    /\ UNCHANGED not_parallel

Next ==
    \/ QueueDownload
    \/ ProcessQueue
    \/ PopTask
    \/ SpawnUnit
    \/ LoopBreak
    \/ JoinHandle
    \/ Return
    \/ \E p \in PackageIds : Acquire(p)
    \/ \E p \in PackageIds : Attempt(p)
    \/ \E p \in PackageIds : Backoff(p)
    \/ \E p \in PackageIds : Report(p)

Spec == Init /\ [][Next]_vars

SpecRetry == InitRetry /\ [][Next]_vars

\* RetryConfig values with a multiplier of at least 1 and any initial and
\* maximal backoff, with attempts enough for three waits
BackoffConfigs ==
    [max_attempts : {MaxAttempts + 2}, initial_backoff : 1..MaxBackoff,
     max_backoff : 1..MaxBackoff, multiplier : 1..MaxMultiplier]

\* A single task with any such RetryConfig and any behaviour of the closure
InitBackoff ==
    /\ CacheIdle
    /\ DepsIdle
    /\ AnalysisIdle
    /\ FetchIdle
    /\ LaterIdle
    /\ \E cfg \in BackoffConfigs, plan \in Plans, m \in 0..1 :
        Start(<<[package_id |-> 1, priority |-> 0, retry_config |-> cfg]>>,
              <<plan>>, m)

SpecBackoff == InitBackoff /\ [][Next]_vars

SpecChannel == InitChannel /\ [][Next]_vars

\* ================================================= the cache (src/src/cache.rs)
\* Results of a call: Ok(Some(v)), Ok(None), Ok(()) and Err(CacheError::Io(..))
Some(v) == [tag |-> "Some", value |-> v]
None == [tag |-> "None", value |-> 0]
Unit == [tag |-> "Unit", value |-> 0]
Err == [tag |-> "Err", value |-> 0]

\* path.exists(), and whether fs::read_to_string or fs::remove_file finds the file
Exists(k) == disk[k] # NoEntry

\* Mutant of ExpiredForGet: `>` in place of `>=`
ExpiredForGetStrict(e, t) == t > e.timestamp + e.ttl

\* The test of DiskStorage::get: now >= entry.timestamp + entry.ttl
ExpiredForGet(e, t) == t >= e.timestamp + e.ttl

\* The test of DiskStorage::cleanup: now > entry.timestamp + entry.ttl
ExpiredForCleanup(e, t) == t > e.timestamp + e.ttl

\* MemCache::get finds an entry that its time_to_live has not yet expired
MemValid(k) == mem[k] # NoMem /\ now < mem[k].inserted + default_ttl

\* A caller with no call in flight
Free(c) == c <= callers /\ op[c].pc \in {"none", "done"}

\* The call of caller c returns r
Done(c, r) == [op EXCEPT ![c].pc = "done", ![c].ret = r, ![c].value = 0]

\* A cache on an empty directory: a DiskStorage (a = "disk"), or a HybridCache
\* with the DiskStorage it builds (a = "hybrid"), used by `n` callers
StartCache(a, n) ==
    /\ now = 0
    /\ api = a
    /\ callers = n
    /\ default_ttl \in 0..MaxTime
    /\ disk = [k \in Keys |-> NoEntry]
    /\ mem = [k \in Keys |-> NoMem]
    /\ lock = 0
    /\ instance = 1
    /\ op = [c \in Callers |-> NoOp]
    /\ last_set = [k \in Keys |-> NoSet]

\* No download is under way
ParallelIdle == Start(<<>>, <<>>, 0)

\* One caller of a DiskStorage or of a HybridCache: each call completes before
\* the next begins
InitCache == ParallelIdle /\ DepsIdle /\ AnalysisIdle /\ FetchIdle /\ LaterIdle /\ \E a \in {"disk", "hybrid"} : StartCache(a, 1)

\* A DiskStorage and its clones, used by several callers whose calls overlap
InitDiskRace == ParallelIdle /\ DepsIdle /\ AnalysisIdle /\ FetchIdle /\ LaterIdle /\ StartCache("disk", MaxCallers)

\* ------------------------------------------------------------------- clock
Tick ==
    /\ api # "none"
    /\ now < MaxTime
    /\ now' = now + 1
    /\ UNCHANGED <<api, callers, default_ttl, disk, mem, lock, instance, op, last_set>>
    /\ UNCHANGED not_cache

\* ------------------------------------------- DiskStorage::get, HybridCache::get
\* What DiskStorage::get does before its first await: if !path.exists() { return Ok(None) }
AfterExists(c, k) ==
    IF Exists(k)
    THEN [op EXCEPT ![c] = [NoOp EXCEPT !.kind = "get", !.key = k, !.began = now,
                                        !.pc = "read"]]
    ELSE [op EXCEPT ![c] = [NoOp EXCEPT !.kind = "get", !.key = k, !.began = now,
                                        !.pc = "done", !.ret = None]]

\* A call of DiskStorage::get, up to the read of the file
DiskGet(c, k) ==
    /\ api = "disk"
    /\ Free(c)
    /\ op' = AfterExists(c, k)
    /\ UNCHANGED <<now, api, callers, default_ttl, disk, mem, lock, instance, last_set>>
    /\ UNCHANGED not_cache

\* A call of HybridCache::get: self.mem.get(key).await; a hit returns at once, a
\* miss goes on into self.storage.get(key)
HGetMem(c, k) ==
    /\ api = "hybrid"
    /\ Free(c)
    /\ IF MemValid(k)
       THEN /\ op' = [op EXCEPT ![c] = [NoOp EXCEPT !.kind = "get", !.key = k,
                                                    !.began = now, !.pc = "done",
                                                    !.ret = Some(mem[k].value)]]
            /\ UNCHANGED mem
       ELSE /\ op' = AfterExists(c, k)
            /\ mem' = [mem EXCEPT ![k] = NoMem]
    /\ UNCHANGED <<now, api, callers, default_ttl, disk, lock, instance, last_set>>
    /\ UNCHANGED not_cache

\* DiskStorage::get: fs::read_to_string(&path).await?, the entry is parsed and
\* its expiry tested; an entry that has not expired is returned
GetRead(c) ==
    /\ op[c].kind = "get"
    /\ op[c].pc = "read"
    /\ LET k == op[c].key
           e == disk[k]
       IN  op' = IF ~Exists(k) \/ e = TornEntry THEN Done(c, Err)
                 ELSE IF ExpiredForGet(e, now) THEN [op EXCEPT ![c].pc = "remove"]
                 ELSE IF api = "hybrid"
                 THEN [op EXCEPT ![c].pc = "promote", ![c].value = e.content]
                 ELSE Done(c, Some(e.content))
    /\ UNCHANGED <<now, api, callers, default_ttl, disk, mem, lock, instance, last_set>>
    /\ UNCHANGED not_cache

\* DiskStorage::get: fs::remove_file(&path).await? of an expired entry, then Ok(None)
GetRemove(c) ==
    /\ op[c].kind = "get"
    /\ op[c].pc = "remove"
    /\ LET k == op[c].key
       IN  IF Exists(k)
           THEN /\ disk' = [disk EXCEPT ![k] = NoEntry]
                /\ op' = Done(c, None)
           ELSE /\ op' = Done(c, Err)
                /\ UNCHANGED disk
    /\ UNCHANGED <<now, api, callers, default_ttl, mem, lock, instance, last_set>>
    /\ UNCHANGED not_cache

\* Mutant of HGetPromote: the value read from disk is returned without being
\* inserted into the memory tier
HGetPromoteSkip(c) ==
    /\ op[c].kind = "get"
    /\ op[c].pc = "promote"
    /\ op' = Done(c, Some(op[c].value))
    /\ UNCHANGED <<now, api, callers, default_ttl, disk, mem, lock, instance, last_set>>
    /\ UNCHANGED not_cache

\* HybridCache::get: self.mem.insert(key, v.clone()).await; Ok(Some(v))
HGetPromote(c) ==
    /\ op[c].kind = "get"
    /\ op[c].pc = "promote"
    /\ mem' = [mem EXCEPT ![op[c].key] = [value |-> op[c].value, inserted |-> now]]
    /\ op' = Done(c, Some(op[c].value))
    /\ UNCHANGED <<now, api, callers, default_ttl, disk, lock, instance, last_set>>
    /\ UNCHANGED not_cache

\* ------------------------------------------- DiskStorage::set, HybridCache::set
\* Mutant of SetWrite: a file that exists is not written again
SetWriteOnce(c, k, v) ==
    /\ api # "none"
    /\ Free(c)
    /\ LET e == [content |-> v, timestamp |-> now, ttl |-> default_ttl]
       IN  /\ disk' = IF Exists(k) THEN disk ELSE [disk EXCEPT ![k] = e]
           /\ last_set' = [last_set EXCEPT ![k] = [value |-> v, timestamp |-> now,
                                                   instance |-> instance]]
    /\ op' = [op EXCEPT ![c] =
                IF api = "hybrid"
                THEN [NoOp EXCEPT !.kind = "set", !.key = k, !.value = v, !.pc = "insert"]
                ELSE [NoOp EXCEPT !.kind = "set", !.pc = "done", !.ret = Unit]]
    /\ UNCHANGED <<now, api, callers, default_ttl, mem, lock, instance>>
    /\ UNCHANGED not_cache

\* A call of DiskStorage::set (directly or from HybridCache::set): the entry
\* { content, timestamp: now_ts(), ttl: default_ttl } is written to the key's file
SetWrite(c, k, v) ==
    /\ api # "none"
    /\ Free(c)
    /\ LET e == [content |-> v, timestamp |-> now, ttl |-> default_ttl]
       IN  /\ disk' = [disk EXCEPT ![k] = e]
           /\ last_set' = [last_set EXCEPT ![k] = [value |-> v, timestamp |-> now,
                                                   instance |-> instance]]
    /\ op' = [op EXCEPT ![c] =
                IF api = "hybrid"
                THEN [NoOp EXCEPT !.kind = "set", !.key = k, !.value = v, !.pc = "insert"]
                ELSE [NoOp EXCEPT !.kind = "set", !.pc = "done", !.ret = Unit]]
    /\ UNCHANGED <<now, api, callers, default_ttl, mem, lock, instance>>
    /\ UNCHANGED not_cache

\* HybridCache::set: self.mem.insert(key, value).await; Ok(())
HSetInsert(c) ==
    /\ op[c].kind = "set"
    /\ op[c].pc = "insert"
    /\ mem' = [mem EXCEPT ![op[c].key] = [value |-> op[c].value, inserted |-> now]]
    /\ op' = Done(c, Unit)
    /\ UNCHANGED <<now, api, callers, default_ttl, disk, lock, instance, last_set>>
    /\ UNCHANGED not_cache

\* ------------------------------------------------------ DiskStorage::cleanup
\* A call of cleanup: by a caller, or by the hourly task HybridCache::new spawns
\* on a clone of the storage
BeginCleanup(c) ==
    /\ api # "none"
    /\ Free(c)
    /\ op' = [op EXCEPT ![c] = [NoOp EXCEPT !.kind = "cleanup", !.pc = "lock"]]
    /\ UNCHANGED <<now, api, callers, default_ttl, disk, mem, lock, instance, last_set>>
    /\ UNCHANGED not_cache

\* Mutant of CleanupLock: the sweep starts without waiting for the lock
CleanupLockNoWait(c) ==
    /\ op[c].kind = "cleanup"
    /\ op[c].pc = "lock"
    /\ lock' = c
    /\ op' = [op EXCEPT ![c].pc = "sweep", ![c].now = now, ![c].todo = Keys]
    /\ UNCHANGED <<now, api, callers, default_ttl, disk, mem, instance, last_set>>
    /\ UNCHANGED not_cache

\* let _guard = self.lock.lock().await; let now = Self::now_ts(); the directory
\* is opened
CleanupLock(c) ==
    /\ op[c].kind = "cleanup"
    /\ op[c].pc = "lock"
    /\ lock = 0
    /\ lock' = c
    /\ op' = [op EXCEPT ![c].pc = "sweep", ![c].now = now, ![c].todo = Keys]
    /\ UNCHANGED <<now, api, callers, default_ttl, disk, mem, instance, last_set>>
    /\ UNCHANGED not_cache

\* The sweep reaches the next file, that of key k (the directory lists the files
\* in the order of their keys): it is read, parsed and, if expired, removed
CleanupFile(c, k) ==
    /\ op[c].kind = "cleanup"
    /\ op[c].pc = "sweep"
    /\ k \in op[c].todo
    /\ \A j \in op[c].todo : k <= j
    /\ disk' = IF Exists(k) /\ ExpiredForCleanup(disk[k], op[c].now)
               THEN [disk EXCEPT ![k] = NoEntry]
               ELSE disk
    /\ op' = [op EXCEPT ![c].todo = @ \ {k}]
    /\ UNCHANGED <<now, api, callers, default_ttl, mem, lock, instance, last_set>>
    /\ UNCHANGED not_cache

\* Ok(()): the sweep is over and _guard is dropped
CleanupUnlock(c) ==
    /\ op[c].kind = "cleanup"
    /\ op[c].pc = "sweep"
    /\ op[c].todo = {}
    /\ lock' = IF lock = c THEN 0 ELSE lock
    /\ op' = Done(c, Unit)
    /\ UNCHANGED <<now, api, callers, default_ttl, disk, mem, instance, last_set>>
    /\ UNCHANGED not_cache

\* ----------------------------------------------------------- the memory tier
\* The MemCache drops an entry to stay within max_capacity
Evict(k) ==
    /\ api = "hybrid"
    /\ mem[k] # NoMem
    /\ mem' = [mem EXCEPT ![k] = NoMem]
    /\ UNCHANGED <<now, api, callers, default_ttl, disk, lock, instance, op, last_set>>
    /\ UNCHANGED not_cache

\* HybridCache::new on the same directory, once the earlier instance is no longer
\* used: an empty MemCache and a DiskStorage of its own
Reopen ==
    /\ api = "hybrid"
    /\ instance < MaxInstances
    /\ \A c \in Callers : op[c].pc \in {"none", "done"}
    /\ instance' = instance + 1
    /\ mem' = [k \in Keys |-> NoMem]
    /\ lock' = 0
    /\ UNCHANGED <<now, api, callers, default_ttl, disk, op, last_set>>
    /\ UNCHANGED not_cache

NextCache ==
    \/ Tick
    \/ Reopen
    \/ \E k \in Keys : Evict(k)
    \/ \E c \in Callers, k \in Keys : DiskGet(c, k)
    \/ \E c \in Callers, k \in Keys : HGetMem(c, k)
    \/ \E c \in Callers : GetRead(c)
    \/ \E c \in Callers : GetRemove(c)
    \/ \E c \in Callers : HGetPromote(c)
    \/ \E c \in Callers, k \in Keys, v \in Values : SetWrite(c, k, v)
    \/ \E c \in Callers : HSetInsert(c)
    \/ \E c \in Callers : BeginCleanup(c)
    \/ \E c \in Callers : CleanupLock(c)
    \/ \E c \in Callers, k \in Keys : CleanupFile(c, k)
    \/ \E c \in Callers : CleanupUnlock(c)

SpecCache == InitCache /\ [][NextCache]_vars

\* The calls of a DiskStorage alone
NextDisk ==
    \/ Tick
    \/ \E c \in Callers, k \in Keys : DiskGet(c, k)
    \/ \E c \in Callers : GetRead(c)
    \/ \E c \in Callers : GetRemove(c)
    \/ \E c \in Callers, k \in Keys, v \in Values : SetWrite(c, k, v)
    \/ \E c \in Callers : BeginCleanup(c)
    \/ \E c \in Callers : CleanupLock(c)
    \/ \E c \in Callers, k \in Keys : CleanupFile(c, k)
    \/ \E c \in Callers : CleanupUnlock(c)

SpecDiskRace == InitDiskRace /\ [][NextDisk]_vars

\* ---- a HybridCache used by several callers whose calls overlap
InitHybridRace ==
    ParallelIdle /\ DepsIdle /\ AnalysisIdle /\ FetchIdle /\ LaterIdle /\ StartCache("hybrid", MaxCallers)

\* Mutant of SetFail: the memory tier is written before the disk
SetFailInserted(c, k, v) ==
    /\ api = "hybrid"
    /\ Free(c)
    /\ mem' = [mem EXCEPT ![k] = [value |-> v, inserted |-> now]]
    /\ op' = [op EXCEPT ![c] = [NoOp EXCEPT !.kind = "set", !.key = k, !.pc = "done",
                                            !.ret = Err]]
    /\ UNCHANGED <<now, api, callers, default_ttl, disk, lock, instance, last_set>>
    /\ UNCHANGED not_cache

\* A call of HybridCache::set whose self.storage.set(key, value).await? fails:
\* create_dir_all or the open of the file failed and the file is as it was, or
\* fs::write failed after it had truncated the file; set returns the error
SetFail(c, k, v) ==
    /\ api = "hybrid"
    /\ Free(c)
    /\ \E e \in {disk[k], TornEntry} : disk' = [disk EXCEPT ![k] = e]
    /\ op' = [op EXCEPT ![c] = [NoOp EXCEPT !.kind = "set", !.key = k, !.pc = "done",
                                            !.ret = Err]]
    /\ UNCHANGED <<now, api, callers, default_ttl, mem, lock, instance, last_set>>
    /\ UNCHANGED not_cache

NextHybridRace ==
    \/ \E c \in Callers, k \in Keys : HGetMem(c, k)
    \/ \E c \in Callers : GetRead(c)
    \/ \E c \in Callers : GetRemove(c)
    \/ \E c \in Callers : HGetPromote(c)
    \/ \E c \in Callers, k \in Keys, v \in Values : SetWrite(c, k, v)
    \/ \E c \in Callers, k \in Keys, v \in Values : SetFail(c, k, v)
    \/ \E c \in Callers : HSetInsert(c)

SpecHybridRace == InitHybridRace /\ [][NextHybridRace]_vars

\* ============================= the dependency resolver (src/src/dependency.rs)
Known == DOMAIN packages

\* The elements of a set of numbers, in increasing order
RECURSIVE Ascending(_)
Ascending(S) ==
    IF S = {} THEN <<>>
    ELSE LET m == CHOOSE x \in S : \A y \in S : x <= y
         IN  <<m>> \o Ascending(S \ {m})

Contains(seq, x) == \E i \in 1..Len(seq) : seq[i] = x

\* Mutant of DependentsOf: the edges point from a package to what it imports
DependentsOfReversed(pkgs, p) == Ascending(pkgs[p] \cap DOMAIN pkgs)

\* Mutant of InDegreeOf: every import counts, a key of the map or not
InDegreeOfAll(pkgs, p) == Cardinality(pkgs[p])

\* build_dependency_graph: in_degree of p is the number of its imports that are
\* keys of the map
InDegreeOf(pkgs, p) == Cardinality(pkgs[p] \cap DOMAIN pkgs)

\* build_dependency_graph: adj of p lists the packages that import p, in the
\* order in which the map yields them
DependentsOf(pkgs, p) == Ascending({q \in DOMAIN pkgs : p \in pkgs[q]})

\* A package map of 1..MaxPackages packages, each importing any set of names
InitDeps ==
    /\ ParallelIdle
    /\ CacheIdle
    /\ AnalysisIdle
    /\ FetchIdle
    /\ LaterIdle
    /\ \E n \in 1..MaxPackages : packages \in [1..n -> SUBSET PackageNames]
    /\ in_degree = <<>>
    /\ adj = <<>>
    /\ topo_queue = <<>>
    /\ order = <<>>
    /\ dep_pc = "build"
    /\ input = packages
    /\ yield_order = Ascending(DOMAIN packages)
    /\ first_order = <<>>
    /\ run = 1

\* self.build_dependency_graph(packages)
BuildDependencyGraph ==
    /\ dep_pc = "build"
    /\ in_degree' = [p \in Known |-> InDegreeOf(packages, p)]
    /\ adj' = [p \in Known |-> DependentsOf(packages, p)]
    /\ dep_pc' = "seed"
    /\ UNCHANGED <<packages, topo_queue, order>>
    /\ UNCHANGED input_vars
    /\ UNCHANGED not_dependency

\* TopoSort::resolve: the queue is seeded with the packages of in-degree 0
SeedQueue ==
    /\ dep_pc = "seed"
    /\ topo_queue' = Ascending({p \in Known : in_degree[p] = 0})
    /\ order' = <<>>
    /\ dep_pc' = "loop"
    /\ UNCHANGED <<packages, in_degree, adj>>
    /\ UNCHANGED input_vars
    /\ UNCHANGED not_dependency

\* The in-degrees and the queue after `for dependent in dependents` has gone
\* through ds; `*degree -= 1` on a zero usize panics
RECURSIVE Relax(_, _, _)
Relax(ds, deg, q) ==
    IF ds = <<>> THEN [in_degree |-> deg, queue |-> q, panic |-> FALSE]
    ELSE LET d == Head(ds)
         IN  IF deg[d] = 0 THEN [in_degree |-> deg, queue |-> q, panic |-> TRUE]
             ELSE Relax(Tail(ds), [deg EXCEPT ![d] = @ - 1],
                        IF deg[d] - 1 = 0 THEN Append(q, d) ELSE q)

\* One turn of `while let Some(current) = queue.pop_front()`
PopFront ==
    /\ dep_pc = "loop"
    /\ topo_queue # <<>>
    /\ LET current == Head(topo_queue)
           r == Relax(adj[current], in_degree, Tail(topo_queue))
       IN  /\ order' = Append(order, current)
           /\ in_degree' = r.in_degree
           /\ topo_queue' = r.queue
           /\ dep_pc' = IF r.panic THEN "panic" ELSE "loop"
    /\ UNCHANGED <<packages, adj>>
    /\ UNCHANGED input_vars
    /\ UNCHANGED not_dependency

\* Mutant of Remaining: the packages left are pushed last key first
RemainingReversed(deg, ord) ==
    LET r == Ascending({p \in DOMAIN deg : deg[p] > 0 /\ ~Contains(ord, p)})
    IN  [i \in 1..Len(r) |-> r[Len(r) + 1 - i]]

\* Mutant of Remaining: the packages left with a positive in-degree are dropped
RemainingNone(deg, ord) == <<>>

\* What the last loop of resolve pushes: the packages whose in-degree is still
\* positive and that are not in the order
Remaining(deg, ord) == Ascending({p \in DOMAIN deg : deg[p] > 0 /\ ~Contains(ord, p)})

\* The queue is empty: the remaining packages are pushed and the order returned
ReturnOrder ==
    /\ dep_pc = "loop"
    /\ topo_queue = <<>>
    /\ order' = order \o Remaining(in_degree, order)
    /\ dep_pc' = "done"
    /\ UNCHANGED <<packages, in_degree, adj, topo_queue>>
    /\ UNCHANGED input_vars
    /\ UNCHANGED not_dependency

NextDeps ==
    \/ BuildDependencyGraph
    \/ SeedQueue
    \/ PopFront
    \/ ReturnOrder

SpecDeps == InitDeps /\ [][NextDeps]_vars

\* generate_deployment_order is a sequential call: the thread that runs it takes
\* its next step as long as there is one
SpecDepsFair == InitDeps /\ [][NextDeps]_vars /\ WF_vars(NextDeps)

\* ---- two calls of generate_deployment_order on the same packages
\* The HashMap of a call yields its keys in an order of its own (std RandomState
\* seeds every map afresh); the IndexMaps of the graph are filled in that order.
KeyOrders(S) ==
    {f \in [1..Cardinality(S) -> S] : \A i, j \in 1..Cardinality(S) : f[i] = f[j] => i = j}

IndexIn(seq, x) == CHOOSE i \in 1..Len(seq) : seq[i] = x

\* The packages as the call meets them: the i-th key yielded is package i
Yielded(inp, y) ==
    [i \in 1..Len(y) |->
        {IF a \in DOMAIN inp THEN IndexIn(y, a) ELSE a : a \in inp[y[i]]}]

\* The returned order in the caller's names
Named(ord, y) == [i \in 1..Len(ord) |-> y[ord[i]]]

InitDepsTwice ==
    /\ ParallelIdle
    /\ CacheIdle
    /\ AnalysisIdle
    /\ FetchIdle
    /\ LaterIdle
    /\ \E n \in 1..MaxPackages :
          /\ input \in [1..n -> SUBSET PackageNames]
          /\ yield_order \in KeyOrders(1..n)
    /\ packages = Yielded(input, yield_order)
    /\ in_degree = <<>>
    /\ adj = <<>>
    /\ topo_queue = <<>>
    /\ order = <<>>
    /\ dep_pc = "build"
    /\ first_order = <<>>
    /\ run = 1

\* The caller keeps the order and calls generate_deployment_order again, in
\* another run of the program, with a map of the same packages
RunAgain ==
    /\ dep_pc = "done"
    /\ run = 1
    /\ first_order' = Named(order, yield_order)
    /\ \E y \in KeyOrders(DOMAIN input) :
          /\ yield_order' = y
          /\ packages' = Yielded(input, y)
    /\ in_degree' = <<>>
    /\ adj' = <<>>
    /\ topo_queue' = <<>>
    /\ order' = <<>>
    /\ dep_pc' = "build"
    /\ run' = 2
    /\ UNCHANGED input
    /\ UNCHANGED not_dependency

NextDepsTwice ==
    \/ NextDeps
    \/ RunAgain

SpecDepsTwice == InitDepsTwice /\ [][NextDepsTwice]_vars

\* ---- a second call on a map that differs in the imports of unknown packages
\* The maps with the keys of pkgs whose packages import the same keys
SameKnownImports(pkgs) ==
    {q \in [DOMAIN pkgs -> SUBSET PackageNames] :
        \A p \in DOMAIN pkgs : q[p] \cap DOMAIN pkgs = pkgs[p] \cap DOMAIN pkgs}

\* The caller keeps the order and calls generate_deployment_order again with
\* imports of packages outside the map added or removed
RunChanged ==
    /\ dep_pc = "done"
    /\ run = 1
    /\ first_order' = Named(order, yield_order)
    /\ packages' \in SameKnownImports(packages)
    /\ in_degree' = <<>>
    /\ adj' = <<>>
    /\ topo_queue' = <<>>
    /\ order' = <<>>
    /\ dep_pc' = "build"
    /\ run' = 2
    /\ UNCHANGED <<input, yield_order>>
    /\ UNCHANGED not_dependency

NextDepsFrame ==
    \/ NextDeps
    \/ RunChanged

SpecDepsFrame == InitDeps /\ [][NextDepsFrame]_vars

\* =================================== source analysis (src/src/dependency.rs)
\* Import paths: two of the registry, one that is the registry's host without
\* the slash, one of the standard library, one with the prefix further inside
ImportPaths ==
    {<<"gno.land", "/", "p">>, <<"gno.land", "/", "r">>, <<"gno.land">>, <<"fmt">>,
     <<"x", "/", "gno.land", "/", "p">>}

\* An import spec of the Go grammar: alone or in a parenthesised list, with no
\* name, an alias, _ or a dot, its path an interpreted or a raw string literal
ImportSpecs ==
    [form : {"single", "grouped"}, name : {"none", "alias", "blank", "dot"},
     literal : {"interpreted", "raw"}, path : ImportPaths]

\* A source text: its package clause ("" when it has none) and its import specs
Sources(n) ==
    [package : {"", "a"}, imports : UNION {[1..k -> ImportSpecs] : k \in 0..n}]

\* The delimiters of an interpreted and of a raw string literal
DoubleQuote == "\""
BackQuote == "backquote"

\* The text of the path node of an import spec, delimiters included
NodeText(spec) ==
    LET q == IF spec.literal = "interpreted" THEN DoubleQuote ELSE BackQuote
    IN  <<q>> \o spec.path \o <<q>>

\* str::trim_matches
RECURSIVE TrimMatches(_, _)
TrimMatches(text, ch) ==
    IF text # <<>> /\ Head(text) = ch THEN TrimMatches(Tail(text), ch)
    ELSE IF text # <<>> /\ text[Len(text)] = ch
         THEN TrimMatches(SubSeq(text, 1, Len(text) - 1), ch)
         ELSE text

\* str::starts_with
StartsWith(text, prefix) ==
    /\ Len(text) >= Len(prefix)
    /\ SubSeq(text, 1, Len(prefix)) = prefix

\* IMPORT_QUERY: both patterns want `path: (interpreted_string_literal)`; the
\* name is optional and any form of it matches
Captured(spec) == spec.literal = "interpreted"

\* extract_imports
ExtractImports(src) ==
    LET text(i) == TrimMatches(NodeText(src.imports[i]), DoubleQuote)
    IN  {text(i) : i \in {j \in 1..Len(src.imports) :
                            /\ Captured(src.imports[j])
                            /\ StartsWith(text(j), GNO_LAND_PREFIX)}}

\* extract_package_name: the identifier of the package clause, or ""
ExtractPackageName(src) == src.package

InitExtract ==
    /\ ParallelIdle
    /\ CacheIdle
    /\ DepsIdle
    /\ FetchIdle
    /\ LaterIdle
    /\ source_code \in Sources(MaxImports)
    /\ extracted = NoExtract
    /\ tree = <<>>
    /\ visited = 0
    /\ found = <<>>
    /\ walk_ret = NoWalk

\* extract_dependencies(source_code)
ExtractDependencies ==
    /\ extracted.tag = "Pending"
    /\ source_code # NoSource
    /\ extracted' = [tag |-> "Ok", package_name |-> ExtractPackageName(source_code),
                     imports |-> ExtractImports(source_code)]
    /\ UNCHANGED <<source_code, walk_vars>>
    /\ UNCHANGED not_analysis

NextExtract ==
    \/ ExtractDependencies

SpecExtract == InitExtract /\ [][NextExtract]_vars

\* ---- extract_dependencies_from_directory
\* The import paths and the package clauses of the files under the directory
WalkPaths == <<(<<"gno.land", "/", "p">>), (<<"gno.land", "/", "r">>), (<<"fmt">>)>>
PackageClauses == {"a", "b"}

\* The text of a file of package pkg that imports the paths numbered in S
FileSource(pkg, S) ==
    [package |-> pkg,
     imports |-> [i \in 1..Cardinality(S) |->
                    [form |-> "grouped", name |-> "none", literal |-> "interpreted",
                     path |-> WalkPaths[Ascending(S)[i]]]]]

\* What read_dir may yield: a .gno file that can be read, a .gno file that
\* cannot, a file of another extension, a subdirectory that can be read (its
\* own entries follow it) or cannot, and an entry that read_dir fails on
DirEntries ==
    {[kind |-> "file", extension |-> GNO_FILE_EXTENSION, readable |-> TRUE,
      content |-> FileSource(pkg, S)] : pkg \in PackageClauses, S \in SUBSET (DOMAIN WalkPaths)}
    \cup {[kind |-> "file", extension |-> GNO_FILE_EXTENSION, readable |-> FALSE,
           content |-> NoSource]}
    \cup {[kind |-> "file", extension |-> "md", readable |-> TRUE, content |-> NoSource]}
    \cup {[kind |-> "dir", extension |-> "", readable |-> r, content |-> NoSource] :
              r \in BOOLEAN}
    \cup {[kind |-> "error", extension |-> "", readable |-> FALSE, content |-> NoSource]}

\* is_gno_file
IsGnoFile(e) == e.extension = GNO_FILE_EXTENSION

\* Mutant of Merge: a later file of a package replaces what was recorded
MergeReplace(pkgs, name, imports) ==
    IF name \in DOMAIN pkgs THEN [pkgs EXCEPT ![name] = imports]
    ELSE pkgs @@ (name :> imports)

\* packages.entry(name).and_modify(|pkg| pkg.imports.extend(imports)).or_insert(..)
Merge(pkgs, name, imports) ==
    IF name \in DOMAIN pkgs THEN [pkgs EXCEPT ![name] = @ \cup imports]
    ELSE pkgs @@ (name :> imports)

InitWalk ==
    /\ ParallelIdle
    /\ CacheIdle
    /\ DepsIdle
    /\ FetchIdle
    /\ LaterIdle
    /\ source_code = NoSource
    /\ extracted = NoExtract
    /\ tree \in UNION {[1..n -> DirEntries] : n \in 0..MaxEntries}
    /\ visited = 0
    /\ found = <<>>
    /\ walk_ret = NoWalk

\* One turn of `for entry in entries` in visit_directory, the calls of
\* visit_directory and process_gno_file it makes included; every `?` returns
\* the error from extract_dependencies_from_directory
VisitEntry ==
    /\ walk_ret.tag = "Pending"
    /\ visited < Len(tree)
    /\ LET e == tree[visited + 1]
       IN  IF e.kind = "error"
           THEN /\ walk_ret' = [tag |-> "Err", error |-> "Failed to read entry"]
                /\ UNCHANGED <<visited, found>>
           ELSE IF e.kind = "dir"
           THEN IF e.readable
                THEN /\ visited' = visited + 1
                     /\ UNCHANGED <<found, walk_ret>>
                ELSE /\ walk_ret' = [tag |-> "Err", error |-> "Failed to read directory"]
                     /\ UNCHANGED <<visited, found>>
           ELSE IF ~IsGnoFile(e)
           THEN /\ visited' = visited + 1
                /\ UNCHANGED <<found, walk_ret>>
           ELSE IF ~e.readable
           THEN /\ walk_ret' = [tag |-> "Err", error |-> "Failed to read file"]
                /\ UNCHANGED <<visited, found>>
           ELSE /\ found' = Merge(found, ExtractPackageName(e.content),
                                  ExtractImports(e.content))
                /\ visited' = visited + 1
                /\ UNCHANGED walk_ret
    /\ UNCHANGED <<tree, extract_vars>>
    /\ UNCHANGED not_analysis

\* The entries are exhausted: Ok(packages)
WalkReturn ==
    /\ walk_ret.tag = "Pending"
    /\ visited = Len(tree)
    /\ tree # <<>>
    /\ walk_ret' = [tag |-> "Ok", error |-> ""]
    /\ UNCHANGED <<tree, visited, found, extract_vars>>
    /\ UNCHANGED not_analysis

NextWalk ==
    \/ VisitEntry
    \/ WalkReturn

SpecWalk == InitWalk /\ [][NextWalk]_vars

\* ========================================= package downloads (src/src/fetch.rs)
\* The file names a package or a target directory may hold
FileNames ==
    <<[stem |-> "a", extension |-> "gno"], [stem |-> "a", extension |-> "md"],
      [stem |-> "b", extension |-> "gno"]>>

\* A file list of the chain: any of the names, each once
Remotes ==
    {[i \in 1..Cardinality(S) |-> FileNames[Ascending(S)[i]]] : S \in SUBSET (DOMAIN FileNames)}

\* A target directory before the call: none, or one left by an earlier download
OldDirs ==
    {NoDir} \cup
    {[exists |-> TRUE, files |-> {[name |-> FileNames[i], version |-> "old"] : i \in S}] :
        S \in SUBSET (DOMAIN FileNames)}

\* The directory download_package writes into
Dest == IF entry_point = "download_package_atomic" THEN temp_dir ELSE target_dir

\* Mutant of Written: the content is fetched and not written
WrittenNothing(dir, name, version) == dir

\* fs::write(&target, &content): the file holds the content, whatever was there
Written(dir, name, version) ==
    [exists |-> TRUE,
     files |-> {f \in dir.files : f.name # name} \cup {[name |-> name, version |-> version]}]

\* Mutant of GuardDrop: the temporary directory is left behind
GuardDropSkip(dir) == dir

\* TempDirGuard::drop: the temporary directory is removed if it exists
GuardDrop(dir) == IF dir.exists THEN NoDir ELSE dir

\* std::fs::rename(&temp_dir, target_dir): the target is the temporary directory
Renamed(dir) == [exists |-> TRUE, files |-> dir.files]

\* The call returns Ok or Err out of download_package_atomic (the guard is
\* dropped) or out of download_package called on the target (there is no guard),
\* d being the directory download_package has written into
Returns(ret, d) ==
    /\ fetch_ret' = ret
    /\ fetch_pc' = "done"
    /\ IF entry_point = "download_package_atomic"
       THEN temp_dir' = GuardDrop(d) /\ UNCHANGED target_dir
       ELSE target_dir' = d /\ UNCHANGED temp_dir

\* download_package goes on with d as the directory it writes into
GoesOn(next, d) ==
    /\ fetch_pc' = next
    /\ UNCHANGED fetch_ret
    /\ IF entry_point = "download_package_atomic"
       THEN temp_dir' = d /\ UNCHANGED target_dir
       ELSE target_dir' = d /\ UNCHANGED temp_dir

\* Err(error), returned by the `?` or the map_err of a step of the call
Failed(error, step) == [tag |-> "Err", error |-> error, step |-> step]
Succeeded == [tag |-> "Ok", error |-> "", step |-> ""]

\* A call of download_package_atomic, or of download_package as
\* download_packages_parallel makes it, for any package and any earlier target
InitFetch ==
    /\ ParallelIdle
    /\ CacheIdle
    /\ DepsIdle
    /\ AnalysisIdle
    /\ LaterIdle
    /\ remote \in Remotes
    /\ target_dir \in OldDirs
    /\ temp_dir = NoDir
    /\ parent_exists \in (IF target_dir.exists THEN {TRUE} ELSE BOOLEAN)
    /\ before = target_dir
    /\ entry_point \in {"download_package_atomic", "download_package"}
    /\ fetch_pc = "create"
    /\ files = <<>>
    /\ fetch_ret = NoFetch

\* download_package: `if !target_dir.exists() { fs::create_dir_all(target_dir)? }`
CreateDir ==
    /\ fetch_pc = "create"
    /\ IF Dest.exists
       THEN GoesOn("list", Dest) /\ UNCHANGED parent_exists
       ELSE \/ GoesOn("list", [exists |-> TRUE, files |-> {}]) /\ parent_exists' = TRUE
            \/ Returns(Failed("DirectoryCreation", "create_dir_all"), Dest) /\ UNCHANGED parent_exists
    /\ UNCHANGED <<remote, before, entry_point, files>>
    /\ UNCHANGED not_fetch

\* download_package: the file list, from the cache or from the chain
ListFiles ==
    /\ fetch_pc = "list"
    /\ \/ GoesOn("fetch", Dest) /\ files' = remote
       \/ Returns(Failed("PackageFiles", "get_package_files"), Dest) /\ UNCHANGED files
    /\ UNCHANGED <<remote, parent_exists, before, entry_point>>
    /\ UNCHANGED not_fetch

\* download_package: one turn of `for file in files`: the content is fetched and
\* written; a failed fs::write may leave nothing or a part of the content
FetchFile ==
    /\ fetch_pc = "fetch"
    /\ files # <<>>
    /\ \/ GoesOn("fetch", Written(Dest, Head(files), "new")) /\ files' = Tail(files)
       \/ Returns(Failed("FileContent", "get_file_content"), Dest) /\ UNCHANGED files
       \/ \E d \in {Dest, Written(Dest, Head(files), "torn")} :
             Returns(Failed("Io", "write"), d) /\ UNCHANGED files
    /\ UNCHANGED <<remote, parent_exists, before, entry_point>>
    /\ UNCHANGED not_fetch

\* download_package returns Ok(()): to its caller, or into download_package_atomic
Downloaded ==
    /\ fetch_pc = "fetch"
    /\ files = <<>>
    /\ IF entry_point = "download_package_atomic"
       THEN GoesOn("remove", Dest)
       ELSE Returns(Succeeded, Dest)
    /\ UNCHANGED <<remote, parent_exists, before, entry_point, files>>
    /\ UNCHANGED not_fetch

\* download_package_atomic: `if target_dir.exists() { remove_dir_all(target_dir)? }`;
\* a remove_dir_all that fails has removed any part of the content
RemoveTarget ==
    /\ fetch_pc = "remove"
    /\ IF ~target_dir.exists
       THEN /\ fetch_pc' = "rename"
            /\ UNCHANGED <<target_dir, temp_dir, fetch_ret>>
       ELSE \/ /\ target_dir' = NoDir
               /\ fetch_pc' = "rename"
               /\ UNCHANGED <<temp_dir, fetch_ret>>
            \/ \E kept \in SUBSET target_dir.files :
                  /\ target_dir' = [exists |-> TRUE, files |-> kept]
                  /\ temp_dir' = GuardDrop(temp_dir)
                  /\ fetch_ret' = Failed("Io", "remove_dir_all")
                  /\ fetch_pc' = "done"
    /\ UNCHANGED <<remote, parent_exists, before, entry_point, files>>
    /\ UNCHANGED not_fetch

\* download_package_atomic: the parent is created if it does not exist, then
\* std::fs::rename(&temp_dir, target_dir)
Commit ==
    /\ fetch_pc = "rename"
    /\ \/ /\ ~parent_exists
          /\ temp_dir' = GuardDrop(temp_dir)
          /\ fetch_ret' = Failed("DirectoryCreation", "create_parent")
          /\ UNCHANGED <<target_dir, parent_exists>>
       \/ /\ target_dir' = Renamed(temp_dir)
          /\ temp_dir' = GuardDrop(NoDir)
          /\ fetch_ret' = Succeeded
          /\ parent_exists' = TRUE
       \/ /\ temp_dir' = GuardDrop(temp_dir)
          /\ fetch_ret' = Failed("Io", "rename")
          /\ parent_exists' = TRUE
          /\ UNCHANGED target_dir
    /\ fetch_pc' = "done"
    /\ UNCHANGED <<remote, before, entry_point, files>>
    /\ UNCHANGED not_fetch

NextFetch ==
    \/ CreateDir
    \/ ListFiles
    \/ FetchFile
    \/ Downloaded
    \/ RemoveTarget
    \/ Commit

SpecFetch == InitFetch /\ [][NextFetch]_vars

\* ================================================================ properties
\* A unit holds a permit from the end of permit.acquire() until it ends:
\* inside download_with_retry (an attempt or a backoff wait) and while it reports
HoldsPermit(p) == unit_pc[p] \in {"running", "sleeping", "reporting"}
Holders == {p \in PackageIds : HoldsPermit(p)}
Handled == {handles[i] : i \in 1..Len(handles)}
Returned == summary # NoSummary

\* C1: at any moment at most max_concurrent units hold a concurrency permit,
\* however many tasks were queued.
C1_PermitBound == Cardinality(Holders) <= max_concurrent

\* C1 witness: the pool is exhausted, one holder is in a backoff wait and another
\* unit waits for a permit.
C1_Witness ==
    /\ max_concurrent >= 1
    /\ Cardinality(Holders) = max_concurrent
    /\ waiters # <<>>
    /\ \E p \in Holders : unit_pc[p] = "sleeping"

\* C2: the queue is ordered by non-increasing priority, and tasks of equal
\* priority are in the order in which they were queued (package ids are given in
\* queueing order).
C2_QueueOrdered ==
    \A i, j \in 1..Len(queue) :
        i < j => /\ queue[i].priority >= queue[j].priority
                 /\ (queue[i].priority = queue[j].priority
                        => queue[i].package_id < queue[j].package_id)

\* C2 witness: a task was inserted ahead of an earlier one, with the queue holding
\* an equal-priority pair or a strictly ordered pair.
C2_Witness ==
    /\ Len(queue) = MaxTasks
    /\ \E i \in 1..Len(queue) - 1 : queue[i].package_id > queue[i + 1].package_id
    /\ pending = <<>>


HandleIndex(p) == CHOOSE i \in 1..Len(handles) : handles[i] = p
PlanOf(p) == download_fn[p]
ConfigOf(p) == unit_task[p].retry_config
FailedPackages == {summary.failed[i].package : i \in 1..Len(summary.failed)}

\* The first attempt is made before max_attempts is looked at
EffectiveAttempts(cfg) == IF cfg.max_attempts < 1 THEN 1 ELSE cfg.max_attempts

\* The download operation of p succeeds within the attempts its task gets
Succeeds(p) == ~PlanOf(p).panics /\ PlanOf(p).fails < EffectiveAttempts(ConfigOf(p))

\* C3: with max_concurrent = 1 the download operation is first invoked for the
\* tasks in the order in which process_queue took them from the queue.
C3_AdmittedInQueueOrder ==
    max_concurrent = 1 =>
        \A i, j \in 1..Len(execution_order) :
            i < j => HandleIndex(execution_order[i]) < HandleIndex(execution_order[j])

C6_SummaryTotals ==
    Returned =>
        /\ summary.total_packages = summary.successful + Len(summary.failed)
        /\ summary.total_packages = Len(download_fn) - Len(pending) - Len(queue)
        /\ summary.total_packages = Cardinality(Handled)
        /\ Cardinality(FailedPackages) = Len(summary.failed)
        /\ FailedPackages = {p \in Handled : unit_pc[p] = "panicked" \/ result[p] # "Ok"}
        /\ summary.successful = Cardinality(Handled \ FailedPackages)

\* C6 witness: a summary with a success, a failure and a task left in the queue
\* or not yet queued.
C6_Witness ==
    /\ Returned
    /\ summary.successful >= 1
    /\ Len(summary.failed) >= 1

\* C7: process_queue ends with a summary, never an error; every task it took
\* was executed, and every task whose operation succeeds is counted as
\* successful, whatever the other tasks did.
C7_FailureDoesNotAbort ==
    /\ pc = "done" => Returned
    /\ Returned =>
          /\ \A p \in Handled :
                /\ calls[p] >= 1
                /\ Succeeds(p) => (result[p] = "Ok" /\ p \notin FailedPackages)
          /\ summary.successful = Cardinality({p \in Handled : Succeeds(p)})

\* C7 witness: the task joined first ended with MaxRetriesExceeded and a task
\* joined after it is counted as successful.
C7_Witness ==
    /\ Returned
    /\ \E p, q \in Handled :
          /\ HandleIndex(p) < HandleIndex(q)
          /\ result[p] = "MaxRetriesExceeded"
          /\ result[q] = "Ok"

\* C8: once process_queue has returned, every unit it spawned has ended and no
\* unit runs or waits for a permit.
C8_AllEndedAtReturn ==
    pc = "done" =>
        /\ \A p \in Handled : Ended(p)
        /\ \A p \in PackageIds : unit_pc[p] \in {"none", "finished", "panicked"}
        /\ waiters = <<>>

\* C8 witness: process_queue returned after two units shared a single permit.
C8_Witness ==
    /\ pc = "done"
    /\ Len(handles) >= 2
    /\ max_concurrent = 1

\* C9: a panic gives the unit's permit back (permits are conserved), and when
\* process_queue returns the panicked task is in the failed list as a Network
\* error with the task-panic message while every other task has its own outcome.
C9_PanicCaptured ==
    /\ permits + Cardinality(Holders) = max_concurrent
    /\ Returned =>
          \A p \in Handled :
              unit_pc[p] = "panicked" =>
                  /\ \E i \in 1..Len(summary.failed) :
                        summary.failed[i] = [package |-> p,
                                             error |-> "Network(Task panic)",
                                             retry_count |-> 0]
                  /\ \A q \in Handled \ {p} :
                        /\ Ended(q)
                        /\ ~PlanOf(q).panics =>
                              result[q] = IF Succeeds(q) THEN "Ok"
                                          ELSE "MaxRetriesExceeded"

\* C9 witness: with a single permit, the first unit to run panicked and a second
\* unit then ran and succeeded; process_queue returned.
C9_Witness ==
    /\ Returned
    /\ max_concurrent = 1
    /\ Len(execution_order) >= 2
    /\ unit_pc[execution_order[1]] = "panicked"
    /\ result[execution_order[2]] = "Ok"

UpdatesOf(kinds, p) ==
    {i \in 1..Len(updates) : updates[i].kind \in kinds /\ updates[i].package_id = p}

\* C10: for every task processed, the progress stream holds exactly one Started
\* update and, after it, exactly one terminal update: Completed iff the task is
\* counted successful, Failed with the error's text iff it is in the failed list.
C10_StartedThenOneTerminal ==
    Returned =>
        \A p \in Handled :
            /\ Cardinality(UpdatesOf({"Started"}, p)) = 1
            /\ Cardinality(UpdatesOf({"Completed", "Failed"}, p)) = 1
            /\ (UpdatesOf({"Completed"}, p) # {}) <=> (p \notin FailedPackages)
            /\ (UpdatesOf({"Failed"}, p) # {}) <=> (p \in FailedPackages)
            /\ \A i \in UpdatesOf({"Started"}, p), j \in UpdatesOf({"Completed", "Failed"}, p) :
                  i < j
            /\ \A j \in UpdatesOf({"Failed"}, p) :
                  \E k \in 1..Len(summary.failed) :
                      /\ summary.failed[k].package = p
                      /\ updates[j].error = ErrorText(summary.failed[k].error)

\* A producer of progress updates that waits in update_tx.send(..).await because
\* the channel is full
SendWaits ==
    /\ buffered >= ChannelCapacity
    /\ \/ pc = "started"
       \/ \E p \in PackageIds : unit_pc[p] = "reporting"

\* C11: reporting progress never makes a producer wait: with nobody reading the
\* progress channel, an update that finds the channel full is dropped, so
\* neither process_queue nor a unit is ever held at its send.
C11_ProducersNeverWait == ~SendWaits

\* ------------------------------------------------------ properties of the cache
\* A get of caller c has returned
GetDone(c) == op[c].kind = "get" /\ op[c].pc = "done"

\* The CacheEntry that the most recent set of key k wrote, and the second at
\* which its TTL has elapsed
LastEntry(k) ==
    [content |-> last_set[k].value, timestamp |-> last_set[k].timestamp,
     ttl |-> default_ttl]
Expiry(k) == last_set[k].timestamp + default_ttl

\* C12: with a non-zero TTL, a get(k) that returns before the TTL of the most
\* recent set(k, v) has elapsed returns Some(v), for a DiskStorage and for a
\* HybridCache alike.
C12_RoundTrip ==
    \A c \in Callers :
        LET k == op[c].key
        IN  (GetDone(c) /\ last_set[k] # NoSet /\ default_ttl # 0 /\ now < Expiry(k))
                => op[c].ret = Some(last_set[k].value)

\* C12 witness: a HybridCache get returned the value last set, a second or more
\* after the set and before its TTL elapsed, with the memory tier not holding it
\* since the set (the entry in memory is younger than the one on disk).
C12_Witness ==
    /\ api = "hybrid"
    /\ \E c \in Callers :
          LET k == op[c].key
          IN  /\ GetDone(c)
              /\ last_set[k] # NoSet
              /\ default_ttl # 0
              /\ last_set[k].timestamp < now
              /\ now < Expiry(k)
              /\ op[c].ret = Some(last_set[k].value)
              /\ mem[k] # NoMem
              /\ mem[k].inserted > last_set[k].timestamp

\* C13: a DiskStorage get(k) that begins when now >= timestamp + ttl holds for
\* the entry returns Ok(None) and the file of k is gone once it has returned; a
\* get that returns while now < timestamp + ttl returns the entry's content and
\* leaves the file as it is.
C13_GetExpiry ==
    api = "disk" =>
        \A c \in Callers :
            LET k == op[c].key
            IN  (GetDone(c) /\ last_set[k] # NoSet)
                    => /\ op[c].began >= Expiry(k)
                            => (op[c].ret = None /\ ~Exists(k))
                       /\ now < Expiry(k)
                            => (op[c].ret = Some(last_set[k].value)
                                    /\ disk[k] = LastEntry(k))

\* C13 witness: a get that began at the very second the TTL (non-zero) of the
\* entry elapsed returned Ok(None), and the file is gone.
C13_Witness ==
    /\ api = "disk"
    /\ \E c \in Callers :
          LET k == op[c].key
          IN  /\ GetDone(c)
              /\ last_set[k] # NoSet
              /\ default_ttl # 0
              /\ op[c].began = Expiry(k)
              /\ op[c].ret = None
              /\ ~Exists(k)

\* C14: a HybridCache get(k) that begins once the TTL of the entry most recently
\* set for k has elapsed never returns a value.
C14_NoValueAfterTtl ==
    api = "hybrid" =>
        \A c \in Callers :
            LET k == op[c].key
            IN  (GetDone(c) /\ op[c].ret.tag = "Some" /\ last_set[k] # NoSet)
                    => op[c].began < Expiry(k)

\* C15: on a HybridCache opened on a directory that an earlier instance filled,
\* a get(k) that returns before the TTL of the value the earlier instance set
\* has elapsed returns that value, and the value is then in the new instance's
\* memory tier.
C15_FreshInstanceServesDisk ==
    [][\A c \in Callers, k \in Keys :
          (/\ api = "hybrid"
           /\ op'[c] # op[c]
           /\ op'[c].kind = "get" /\ op'[c].pc = "done" /\ op'[c].key = k
           /\ last_set[k] # NoSet
           /\ last_set[k].instance < instance
           /\ now < Expiry(k))
              => /\ op'[c].ret = Some(last_set[k].value)
                 /\ mem'[k].value = last_set[k].value]_vars

\* C15 witness: the second instance has returned the value the first one set,
\* and holds it in memory since that get.
C15_Witness ==
    /\ api = "hybrid"
    /\ instance = 2
    /\ \E c \in Callers :
          LET k == op[c].key
          IN  /\ GetDone(c)
              /\ last_set[k] # NoSet
              /\ last_set[k].instance = 1
              /\ now < Expiry(k)
              /\ op[c].ret = Some(last_set[k].value)
              /\ mem[k] = [value |-> last_set[k].value, inserted |-> now]

\* C16: when a cleanup has completed with no other call under way, every entry
\* for which now >= timestamp + ttl held when the sweep took its `now` is gone,
\* and every entry for which now < timestamp + ttl held is there, unchanged.
C16_CleanupRemovesExpired ==
    \A c \in Callers :
        (op[c].kind = "cleanup" /\ op[c].pc = "done") =>
            \A k \in Keys :
                last_set[k] # NoSet =>
                    IF op[c].now >= Expiry(k) THEN ~Exists(k)
                    ELSE disk[k] = LastEntry(k)

\* The callers whose cleanup is between taking the lock and releasing it
Sweeping == {c \in Callers : op[c].kind = "cleanup" /\ op[c].pc = "sweep"}

\* C17: for a DiskStorage and its clones, at most one cleanup is sweeping at any
\* time, and the lock is held by that cleanup for the whole of its sweep and
\* by nobody else.
C17_SingleFlight ==
    /\ Cardinality(Sweeping) <= 1
    /\ \A c \in Sweeping : lock = c
    /\ lock # 0 => lock \in Sweeping

\* C17 witness: one cleanup is in the middle of its sweep while another call of
\* cleanup waits for the lock.
C17_Witness ==
    \E c, d \in Callers :
        /\ c \in Sweeping
        /\ op[c].todo # Keys
        /\ op[c].todo # {}
        /\ op[d].kind = "cleanup"
        /\ op[d].pc = "lock"

\* C18: a get(k) that races with the deletion of k's file, by cleanup or by
\* another get, returns Ok(None) and never an error.
C18_RacingGetIsAbsent ==
    \A c \in Callers : GetDone(c) => op[c].ret # Err

\* ------------------------------------------------- properties of the resolver
\* B imports A, and both are packages of the map
ImportsKnown(b, a) == a \in Known /\ b \in Known /\ a \in packages[b]

\* The packages that import, directly or through others, a package of S (paths
\* of up to i more imports)
RECURSIVE Importers(_, _)
Importers(S, i) ==
    IF i = 0 THEN S
    ELSE Importers(S \cup {b \in Known : \E a \in S : ImportsKnown(b, a)}, i - 1)

\* No package imports itself, directly or through other packages of the map
Acyclic ==
    \A a \in Known :
        a \notin Importers({b \in Known : ImportsKnown(b, a)}, Cardinality(Known))

Position(p) == CHOOSE i \in 1..Len(order) : order[i] = p

\* C19: for an acyclic package map, whenever B imports A and both are packages
\* of the map, A comes before B in the order generate_deployment_order returns.
C19_TopologicalOrder ==
    (dep_pc = "done" /\ Acyclic) =>
        \A a, b \in Known :
            ImportsKnown(b, a) =>
                /\ Contains(order, a)
                /\ Contains(order, b)
                /\ Position(a) < Position(b)

\* C19 witness: an order was returned for a chain of MaxPackages packages in
\* which the package the map yields first imports the second, and so on.
C19_Witness ==
    /\ dep_pc = "done"
    /\ Acyclic
    /\ Len(packages) = MaxPackages
    /\ \A p \in 1..(MaxPackages - 1) : ImportsKnown(p, p + 1)

\* The order holds every package of the map exactly once and nothing else
OrderIsPermutation ==
    /\ Len(order) = Cardinality(Known)
    /\ {order[i] : i \in 1..Len(order)} = Known

\* C20: for every package map, with cycles and self-imports too,
\* generate_deployment_order ends, without a panic, and the order it returns
\* holds every package of the map exactly once and nothing else.
C20_EveryPackageOnce ==
    /\ <>(dep_pc = "done")
    /\ [](dep_pc # "panic")
    /\ [](dep_pc = "done" => OrderIsPermutation)

\* C20 witness: an order was returned for a map with a self-import, a cycle of
\* two packages and an import of a package the map does not hold.
C20_Witness ==
    /\ dep_pc = "done"
    /\ OrderIsPermutation
    /\ \E a, b, c \in Known :
          /\ ImportsKnown(a, a)
          /\ b # c /\ ImportsKnown(b, c) /\ ImportsKnown(c, b)
    /\ \E p \in Known : packages[p] \ Known # {}

\* C21: two calls of generate_deployment_order on the same packages with the same
\* imports return the same sequence, ties among independent packages and the
\* order of the packages of a cycle included.
C21_SameOrderEveryRun ==
    (run = 2 /\ dep_pc = "done") => Named(order, yield_order) = first_order

\* The paths a source text declares in its import specs
DeclaredPaths(src) == {src.imports[i].path : i \in 1..Len(src.imports)}

\* C22: the import set extract_dependencies returns holds exactly the declared
\* import paths that start with the registry prefix gno.land/.
C22_ExactlyPrefixedImports ==
    extracted.tag = "Ok" =>
        extracted.imports = {p \in DeclaredPaths(source_code) : StartsWith(p, GNO_LAND_PREFIX)}

\* The .gno files under the directory that can be read
SourceFiles == {i \in 1..Len(tree) : tree[i].kind = "file" /\ IsGnoFile(tree[i]) /\ tree[i].readable}

\* The package names those files declare, and the union of the import sets of
\* the files that declare one name
DeclaredNames == {ExtractPackageName(tree[i].content) : i \in SourceFiles}
ImportsOfName(name) ==
    UNION {ExtractImports(tree[i].content) :
              i \in {j \in SourceFiles : ExtractPackageName(tree[j].content) = name}}

\* C23: extract_dependencies_from_directory returns, for each package name, the
\* union of the import sets of all the files that declare it, whatever the order
\* in which the files are visited.
C23_UnionPerPackage ==
    walk_ret.tag = "Ok" =>
        /\ DOMAIN found = DeclaredNames
        /\ \A name \in DeclaredNames : found[name] = ImportsOfName(name)

\* C23 witness: two files of one package with import sets neither of which
\* holds the other were visited with a file of another package between them.
C23_Witness ==
    /\ walk_ret.tag = "Ok"
    /\ Len(tree) = 3
    /\ SourceFiles = {1, 2, 3}
    /\ tree[1].content.package = tree[3].content.package
    /\ tree[2].content.package # tree[1].content.package
    /\ ExtractImports(tree[1].content) \ ExtractImports(tree[3].content) # {}
    /\ ExtractImports(tree[3].content) \ ExtractImports(tree[1].content) # {}

\* What stopped the walk is a failure to read a directory or one of its entries
DirectoryReadFailed ==
    /\ visited < Len(tree)
    /\ \/ tree[visited + 1].kind = "error"
       \/ tree[visited + 1].kind = "dir" /\ ~tree[visited + 1].readable

\* C24: a source file that cannot be read is skipped: only a failure to read a
\* directory makes the walk return an error, and a walk that succeeds returns
\* the packages of all the other files.
C24_UnreadableFileSkipped ==
    /\ walk_ret.tag = "Err" => DirectoryReadFailed
    /\ walk_ret.tag = "Ok" => \A name \in DeclaredNames : name \in DOMAIN found

\* download_package_atomic has returned
AtomicDone == entry_point = "download_package_atomic" /\ fetch_pc = "done"

\* The files of the new package, as a download that succeeds writes them
NewFiles == {[name |-> remote[i], version |-> "new"] : i \in 1..Len(remote)}

C26_FailureLeavesTarget ==
    (AtomicDone /\ fetch_ret.tag = "Err" /\ fetch_ret.step # "rename")
        => target_dir = before

\* validate_package on the downloaded files: Ok when the walk finds a package,
\* that is when there is a .gno file
ValidatePackage(fs) == \E f \in fs : f.name.extension = GNO_FILE_EXTENSION

\* C27: whenever the downloaded package fails validation, download_package_atomic
\* returns an error and the target directory is neither removed nor replaced.
C27_InvalidPackageRejected ==
    (AtomicDone /\ ~ValidatePackage(NewFiles))
        => (fetch_ret.tag = "Err" /\ target_dir = before)

\* C28: after a successful download_package_atomic the target directory holds
\* exactly the files of the new package.
C28_TargetIsNewPackage ==
    (AtomicDone /\ fetch_ret.tag = "Ok")
        => (target_dir.exists /\ target_dir.files = NewFiles)

\* C28 witness: the earlier target held a file that the new package does not
\* have and lacked one that it has, and the call succeeded.
C28_Witness ==
    /\ AtomicDone
    /\ fetch_ret.tag = "Ok"
    /\ \E f \in before.files : \A i \in 1..Len(remote) : remote[i] # f.name
    /\ \E i \in 1..Len(remote) : \A f \in before.files : f.name # remote[i]

\* The files of this download in the target directory
Arrived == {f \in target_dir.files : f.version # "old"}

\* C29: every package download is all-or-nothing, the tasks of
\* download_packages_parallel included: a download that fails leaves the target
\* directory without a partially written subset of the package's files.
C29_AllOrNothing ==
    (fetch_pc = "done" /\ fetch_ret.tag = "Err") => Arrived \in {{}, NewFiles}

\* C30: for every RetryConfig with multiplier >= 1, the wait before the first
\* retry is initial_backoff, each later wait is min(previous wait * multiplier,
\* max_backoff), the waits never decrease and none exceeds max_backoff.
C30_BackoffSchedule ==
    \A p \in PackageIds :
        LET cfg == unit_task[p].retry_config
            w == waits[p]
        IN  (w # <<>> /\ cfg.multiplier >= 1) =>
                /\ w[1] = cfg.initial_backoff
                /\ \A i \in 2..Len(w) :
                      /\ w[i] = Min(w[i - 1] * cfg.multiplier, cfg.max_backoff)
                      /\ w[i] >= w[i - 1]
                /\ \A i \in 1..Len(w) : w[i] <= cfg.max_backoff

\* The packages that import themselves, directly or through other packages,
\* and those that import such a package, directly or through others
OnCycle ==
    {a \in Known : a \in Importers({b \in Known : ImportsKnown(b, a)}, Cardinality(Known))}
BehindCycle == Importers(OnCycle, Cardinality(Known))

\* The order ends with the packages of T in map order, and holds none before
EndsWith(T) ==
    LET n == Len(order) - Cardinality(T)
    IN  /\ n >= 0
        /\ SubSeq(order, n + 1, Len(order)) = Ascending(T)
        /\ \A i \in 1..n : order[i] \notin T

\* C31 (as stated): the packages appended after the queue drains are exactly the
\* packages of a dependency cycle, in map order, after every other package.
C31_TailIsCycles == dep_pc = "done" => EndsWith(OnCycle)

\* C31 (amended): the packages appended after the queue drains are exactly those
\* whose in-degree never reached zero, that is the packages of a cycle and the
\* packages that import one directly or through others; they are appended in
\* map order and follow every other package.
C31_TailIsBehindCycles == dep_pc = "done" => EndsWith(BehindCycle)

\* C31 witness: an order was returned for a map in which two packages import
\* each other and a third, yielded before them, imports one of the two.
C31_Witness ==
    /\ dep_pc = "done"
    /\ Cardinality(OnCycle) = 2
    /\ Cardinality(BehindCycle) = 3
    /\ 1 \notin OnCycle

\* C32: imports of packages that are not keys of the map do not affect the
\* ordering: with such imports added or removed, in_degree, the adjacency lists
\* and the returned order are the same, and in_degree of a package is the
\* number of its imports that are keys of the map.
C32_UnknownImportsIgnored ==
    /\ dep_pc = "seed" =>
          /\ in_degree = [p \in Known |-> Cardinality(packages[p] \cap Known)]
          /\ in_degree = [p \in Known |-> InDegreeOf(input, p)]
          /\ adj = [p \in Known |-> DependentsOf(input, p)]
    /\ (run = 2 /\ dep_pc = "done") => order = first_order

\* C32 witness: the second call returned an order of two packages or more for a
\* map in which one package gained and another lost an import of a package
\* outside the map.
C32_Witness ==
    /\ run = 2
    /\ dep_pc = "done"
    /\ Len(order) >= 2
    /\ \E p \in Known : packages[p] \ input[p] # {}
    /\ \E p \in Known : input[p] \ packages[p] # {}

\* The calls of HybridCache::set that return in this step with an error
FailingSets == {c \in Callers : op'[c] # op[c] /\ op'[c].kind = "set" /\ op'[c].ret = Err}

\* A call that has the value v of key k from the disk tier: a set whose
\* self.storage.set has returned Ok, or a get whose self.storage.get found v
PastDisk(k, v) ==
    \E c \in Callers : op[c].pc \in {"insert", "promote"} /\ op[c].key = k /\ op[c].value = v

\* C33: HybridCache.set writes the disk entry before the memory entry: a set
\* whose disk write fails returns the error and leaves the memory tier as it
\* was, and a value enters the memory tier only from a call that has written it
\* to disk or read it from disk.
C33_DiskBeforeMemory ==
    [][/\ FailingSets # {} => mem' = mem
       /\ \A k \in Keys :
             (mem'[k] # mem[k] /\ mem'[k] # NoMem) => PastDisk(k, mem'[k].value)]_vars

\* C33 witness: a set of a value failed on a key whose memory entry holds
\* another value, and a get of that key by the other caller has returned since.
C33_Witness ==
    /\ op[1].kind = "set" /\ op[1].pc = "done" /\ op[1].ret = Err
    /\ op[2].kind = "get" /\ op[2].pc = "done" /\ op[2].key = op[1].key
    /\ op[2].ret.tag = "Some"
    /\ mem[op[1].key] # NoMem
    /\ disk[op[1].key] = TornEntry

\* Every call has returned and the last call of each of two callers is a set of
\* key k that succeeded
BothSetsDone(k) ==
    /\ \A c \in Callers : op[c].pc \in {"none", "done"}
    /\ \E c, d \in Callers :
          /\ c # d
          /\ op[c].kind = "set" /\ op[c].key = k /\ op[c].ret = Unit
          /\ op[d].kind = "set" /\ op[d].key = k /\ op[d].ret = Unit

\* C38: after two concurrent HybridCache.set calls on one key have both
\* completed, the memory tier and the disk entry hold the same value, in every
\* interleaving of their disk and memory writes.
C38_TiersAgreeAfterSets ==
    \A k \in Keys :
        (BothSetsDone(k) /\ mem[k] # NoMem /\ Exists(k)) => mem[k].value = disk[k].content

\* C34: for every task in the summary's failed list, retry_count reflects the
\* retries the retry loop performed: it is non-zero whenever the operation was
\* attempted more than once for the task.
C34_RetryCountReported ==
    Returned =>
        \A i \in 1..Len(summary.failed) :
            attempts[summary.failed[i].package] > 1 => summary.failed[i].retry_count # 0

\* =================== downloads with dependencies (src/src/fetch.rs, 202-415)
\* `as u8` of a usize: the value modulo 2^8
AsU8(n) == n % U8Values

\* The DownloadTask that download_packages_parallel builds for packages[idx],
\* idx counted from 0
BatchTask(pkgs, idx) ==
    [package_id |-> pkgs[idx + 1], priority |-> AsU8(Len(pkgs) - idx)]

\* Mutant of AlreadyAnalyzed: a package popped is never skipped
AlreadyAnalyzedNever(p, done) == FALSE

\* `if analyzed.contains(&pkg_path) { continue; }`
AlreadyAnalyzed(p, done) == p \in done

\* The imports the loop pushes: `!analyzed.contains(import) &&
\* !to_analyze.contains(import)`
Unseen(imports, done, waiting) ==
    {i \in imports : i \notin done /\ ~Contains(waiting, i)}

\* download_packages_parallel is called with a list of packages
InitPriorities ==
    /\ ParallelIdle
    /\ CacheIdle
    /\ DepsIdle
    /\ AnalysisIdle
    /\ FetchIdle
    /\ RaceIdle
    /\ DrainIdle
    /\ registry = <<>>
    /\ package = 0
    /\ to_analyze = <<>>
    /\ analyzed = {}
    /\ all_deps = <<>>
    /\ analysis = NoAnalysis
    /\ analysis_count = <<>>
    /\ resolve_ret = NoResolve
    /\ \E n \in 0..MaxBatch : batch_packages = [i \in 1..n |-> i]
    /\ batch_queue = <<>>
    /\ batch_pc = IF batch_packages = <<>> THEN "process" ELSE "queue"

\* download_with_deps_parallel is called for a package of the chain;
\* resolve_all_dependencies has pushed it on to_analyze
InitResolve ==
    /\ ParallelIdle
    /\ CacheIdle
    /\ DepsIdle
    /\ AnalysisIdle
    /\ FetchIdle
    /\ RaceIdle
    /\ DrainIdle
    /\ registry \in [PackageNames -> SUBSET PackageNames]
    /\ package \in PackageNames
    /\ to_analyze = <<package>>
    /\ analyzed = {}
    /\ all_deps = <<>>
    /\ analysis = NoAnalysis
    /\ analysis_count = [p \in PackageNames |-> 0]
    /\ resolve_ret = NoResolve
    /\ batch_packages = <<>>
    /\ batch_queue = <<>>
    /\ batch_pc = "resolve"

\* to_analyze.pop_front() yields a package analyzed before: continue
SkipAnalyzed ==
    /\ batch_pc = "resolve"
    /\ to_analyze # <<>>
    /\ AlreadyAnalyzed(Head(to_analyze), analyzed)
    /\ to_analyze' = Tail(to_analyze)
    /\ UNCHANGED <<registry, package, analyzed, all_deps, analysis, analysis_count,
                   resolve_ret, batch_packages, batch_queue, batch_pc>>
    /\ UNCHANGED not_batch

\* to_analyze.pop_front() yields a package not analyzed yet:
\* self.analyze_package_dependencies(&pkg_path).await reads its files from the
\* chain and fails or yields the imports of the package
AnalyzePackage ==
    /\ batch_pc = "resolve"
    /\ to_analyze # <<>>
    /\ ~AlreadyAnalyzed(Head(to_analyze), analyzed)
    /\ LET p == Head(to_analyze)
       IN  /\ analysis' \in {[tag |-> "Ok", package |-> p, imports |-> registry[p]],
                             [tag |-> "Err", package |-> p, imports |-> {}]}
           /\ analysis_count' = [analysis_count EXCEPT ![p] = @ + 1]
    /\ to_analyze' = Tail(to_analyze)
    /\ batch_pc' = "analysis"
    /\ UNCHANGED <<registry, package, analyzed, all_deps, resolve_ret, batch_packages,
                   batch_queue>>
    /\ UNCHANGED not_batch

\* The analysis succeeded: the imports not seen yet are pushed in the order the
\* HashSet yields them, the package is inserted in all_deps and in analyzed
Absorb ==
    /\ batch_pc = "analysis"
    /\ analysis.tag = "Ok"
    /\ \E pushed \in KeyOrders(Unseen(analysis.imports, analyzed, to_analyze)) :
           to_analyze' = to_analyze \o pushed
    /\ all_deps' = [k \in DOMAIN all_deps \cup {analysis.package} |->
                       IF k = analysis.package THEN analysis.package ELSE all_deps[k]]
    /\ analyzed' = analyzed \cup {analysis.package}
    /\ analysis' = NoAnalysis
    /\ batch_pc' = "resolve"
    /\ UNCHANGED <<registry, package, analysis_count, resolve_ret, batch_packages,
                   batch_queue>>
    /\ UNCHANGED not_batch

\* The analysis failed: the `?` of resolve_all_dependencies and the `?` of
\* download_with_deps_parallel return the error
Propagate ==
    /\ batch_pc = "analysis"
    /\ analysis.tag = "Err"
    /\ resolve_ret' = [tag |-> "Err", package |-> analysis.package]
    /\ batch_pc' = "failed"
    /\ UNCHANGED <<registry, package, to_analyze, analyzed, all_deps, analysis,
                   analysis_count, batch_packages, batch_queue>>
    /\ UNCHANGED not_batch

\* to_analyze is empty: Ok(all_deps)
ResolveReturn ==
    /\ batch_pc = "resolve"
    /\ to_analyze = <<>>
    /\ resolve_ret' = [tag |-> "Ok", deps |-> all_deps]
    /\ batch_pc' = "sort"
    /\ UNCHANGED <<registry, package, to_analyze, analyzed, all_deps, analysis,
                   analysis_count, batch_packages, batch_queue>>
    /\ UNCHANGED not_batch

\* all_deps.keys() collected and packages.sort(): the order of the package
\* numbers stands for the order of the package paths
SortPackages ==
    /\ batch_pc = "sort"
    /\ batch_packages' = Ascending(DOMAIN resolve_ret.deps)
    /\ batch_pc' = "queue"
    /\ UNCHANGED <<registry, package, to_analyze, analyzed, all_deps, analysis,
                   analysis_count, resolve_ret, batch_queue>>
    /\ UNCHANGED not_batch

\* One turn of `for (idx, package) in packages.iter().enumerate()`: the task is
\* built and download_manager.queue_download(task) inserts it
QueueTask ==
    /\ batch_pc = "queue"
    /\ LET idx == Len(batch_queue)
           t == BatchTask(batch_packages, idx)
       IN  /\ batch_queue' = InsertAt(batch_queue, InsertPosition(batch_queue, t), t)
           /\ batch_pc' = IF idx + 1 = Len(batch_packages) THEN "process" ELSE "queue"
    /\ UNCHANGED <<registry, package, to_analyze, analyzed, all_deps, analysis,
                   analysis_count, resolve_ret, batch_packages>>
    /\ UNCHANGED not_batch

NextPriorities == QueueTask

SpecPriorities == InitPriorities /\ [][NextPriorities]_vars

NextResolve ==
    \/ SkipAnalyzed
    \/ AnalyzePackage
    \/ Absorb
    \/ Propagate
    \/ ResolveReturn
    \/ SortPackages
    \/ QueueTask

SpecResolve == InitResolve /\ [][NextResolve]_vars

\* The call is polled until it returns
SpecResolveFair == InitResolve /\ [][NextResolve]_vars /\ WF_vars(NextResolve)

\* ---- properties of the downloads with dependencies
\* The priority of the task queued for a package
PriorityOf(p) ==
    LET i == CHOOSE i \in 1..Len(batch_queue) : batch_queue[i].package_id = p
    IN  batch_queue[i].priority

\* C35: among the tasks download_packages_parallel has queued, whatever the
\* length of the list, the task of a package earlier in the list has a strictly
\* higher priority than the task of every later package.
C35_EarlierIsHigher ==
    \A i, j \in 1..Len(batch_queue) :
        i < j => PriorityOf(batch_packages[i]) > PriorityOf(batch_packages[j])

\* The packages of S and what they import, through up to i more imports
RECURSIVE ImportClosure(_, _)
ImportClosure(S, i) ==
    IF i = 0 THEN S
    ELSE ImportClosure(S \cup UNION {registry[p] : p \in S}, i - 1)

\* The packages reachable from the root through imports, the root included
Reachable == ImportClosure({package}, Cardinality(PackageNames))

\* Package a imports package b, directly or through other packages
ImportsThrough(a, b) == b \in ImportClosure(registry[a], Cardinality(PackageNames))

\* C36: when download_with_deps_parallel has queued its tasks, for every pair of
\* resolved packages where B imports A (and A does not import B back through a
\* cycle), the priority of A's task is at least the priority of B's task.
C36_DependencyFirst ==
    batch_pc = "process" =>
        \A a, b \in DOMAIN resolve_ret.deps :
            (a \in registry[b] /\ ~ImportsThrough(a, b)) =>
                PriorityOf(a) >= PriorityOf(b)

\* C40: resolve_all_dependencies returns in the end; no package is ever analyzed
\* twice; when it returns Ok, the keys of the map are exactly the packages
\* reachable from the root and each of them was analyzed exactly once; when an
\* analysis fails, the call returns that error and never Ok.
C40_ResolveTerminates ==
    /\ <>(resolve_ret # NoResolve)
    /\ [](\A p \in DOMAIN analysis_count : analysis_count[p] <= 1)
    /\ [](resolve_ret.tag = "Ok" =>
            /\ DOMAIN resolve_ret.deps = Reachable
            /\ \A p \in PackageNames :
                   analysis_count[p] = IF p \in Reachable THEN 1 ELSE 0)
    /\ [](analysis.tag = "Err" => resolve_ret.tag # "Ok")
    /\ (analysis.tag = "Err") ~> (resolve_ret.tag = "Err" /\ resolve_ret.package = analysis.package)

\* C40 witness: the call returned Ok for a root from which every package is
\* reachable, which imports itself and lies on a cycle with another package
C40_Witness ==
    /\ resolve_ret.tag = "Ok"
    /\ Reachable = PackageNames
    /\ package \in registry[package]
    /\ \E p \in PackageNames \ {package} :
           ImportsThrough(package, p) /\ ImportsThrough(p, package)

\* ======== concurrent download_package_atomic calls (src/src/fetch.rs, 81-198)
\* A path is the sequence of its components and a component is a sequence of
\* pieces of text; a call writes the files of the package it downloads, which
\* are named after the call, and file 0 is what was in a target before.
RaceCalls == 1..MaxCallers
WorkDir == <<<<"work">>>>
TargetPaths ==
    {WorkDir \o <<<<"a">>>>, WorkDir \o <<<<"b">>>>, WorkDir \o <<<<"a">>, <<"x">>>>}

\* Path::parent and Path::file_name
ParentOf(p) == SubSeq(p, 1, Len(p) - 1)
FileNameOf(p) == p[Len(p)]

\* Mutant of TempDirName: the name of the target is not part of the name
TempDirNameAnonymous(t, stamp) == <<"package", "_tmp_", stamp>>

\* format!("{}_tmp_{}", target_dir.file_name(), timestamp)
TempDirName(t, stamp) == FileNameOf(t) \o <<"_tmp_", stamp>>

\* parent.join(temp_dir_name)
TempDirOf(t, stamp) == Append(ParentOf(t), TempDirName(t, stamp))

\* temp_dir of a call
TempOf(c) == TempDirOf(race_target[c], race_stamp[c])

\* The paths of the model
RacePaths ==
    {WorkDir} \cup TargetPaths
        \cup {TempDirOf(t, s) : t \in TargetPaths, s \in 1..MaxTime}
        \cup {Append(ParentOf(t), TempDirNameAnonymous(t, s)) :
                  t \in TargetPaths, s \in 1..MaxTime}

\* Path q is path p or lies under it
Inside(q, p) == Len(p) <= Len(q) /\ SubSeq(q, 1, Len(p)) = p

\* fs::create_dir_all(p): p and the directories above it exist afterwards
MkDirAll(f, p) ==
    [q \in DOMAIN f |->
        IF Inside(p, q) /\ ~f[q].exists THEN [exists |-> TRUE, files |-> {}] ELSE f[q]]

\* std::fs::remove_dir_all(p): p and everything under it is gone
RemoveDirAll(f, p) == [q \in DOMAIN f |-> IF Inside(q, p) THEN NoDir ELSE f[q]]

\* A directory that holds a file or a directory
NonEmpty(f, p) ==
    f[p].files # {} \/ \E q \in DOMAIN f : q # p /\ Inside(q, p) /\ f[q].exists

\* std::fs::rename(from, to) can move the directory: from exists, the parent of
\* to exists and to is absent or an empty directory
CanRename(f, from, to) ==
    /\ f[from].exists
    /\ f[ParentOf(to)].exists
    /\ ~(f[to].exists /\ NonEmpty(f, to))

\* std::fs::rename(from, to) of a directory with nothing of the model under it
RenameDir(f, from, to) == [f EXCEPT ![to] = f[from], ![from] = NoDir]

\* The directories that were there before the calls: the working directory and
\* some of the targets, each with a file of its own
OldTrees ==
    {[q \in RacePaths |->
         IF q = WorkDir THEN [exists |-> TRUE, files |-> {}]
         ELSE IF q \in old THEN [exists |-> TRUE, files |-> {0}]
         ELSE NoDir] :
       old \in {S \in SUBSET TargetPaths :
                   \A t \in S : ParentOf(t) = WorkDir \/ ParentOf(t) \in S}}

\* Calls of download_package_atomic for different target paths; each has read
\* the clock for the name of its temporary directory
InitAtomicRace ==
    /\ ParallelIdle
    /\ CacheIdle
    /\ DepsIdle
    /\ AnalysisIdle
    /\ FetchIdle
    /\ BatchIdle
    /\ DrainIdle
    /\ file_system \in OldTrees
    /\ race_target \in {t \in [RaceCalls -> TargetPaths] :
                           \A c, o \in RaceCalls : t[c] = t[o] => c = o}
    /\ race_stamp \in [RaceCalls -> 1..MaxTime]
    /\ race_pc = [c \in RaceCalls |-> "create"]
    /\ race_ret = [c \in RaceCalls |-> NoFetch]

\* download_package(pkg_path, &temp_dir): `if !target_dir.exists() {
\* fs::create_dir_all(target_dir)? }`
RaceCreate(c) ==
    /\ race_pc[c] = "create"
    /\ file_system' = MkDirAll(file_system, TempOf(c))
    /\ race_pc' = [race_pc EXCEPT ![c] = "write"]
    /\ UNCHANGED <<race_target, race_stamp, race_ret>>
    /\ UNCHANGED not_race

\* download_package: the files are fetched and written, each after
\* fs::create_dir_all of its parent; or a fetch fails and the `?` returns
RaceWrite(c) ==
    /\ race_pc[c] = "write"
    /\ \/ /\ file_system' =
                [MkDirAll(file_system, TempOf(c)) EXCEPT ![TempOf(c)].files = @ \cup {c}]
          /\ race_pc' = [race_pc EXCEPT ![c] = "remove"]
          /\ UNCHANGED race_ret
       \/ /\ race_ret' = [race_ret EXCEPT ![c] = Failed("FileContent", "download")]
          /\ race_pc' = [race_pc EXCEPT ![c] = "drop"]
          /\ UNCHANGED file_system
    /\ UNCHANGED <<race_target, race_stamp>>
    /\ UNCHANGED not_race

\* `if target_dir.exists() { std::fs::remove_dir_all(target_dir)? }`
RaceRemove(c) ==
    /\ race_pc[c] = "remove"
    /\ file_system' = IF file_system[race_target[c]].exists
                       THEN RemoveDirAll(file_system, race_target[c])
                       ELSE file_system
    /\ race_pc' = [race_pc EXCEPT ![c] = "parent"]
    /\ UNCHANGED <<race_target, race_stamp, race_ret>>
    /\ UNCHANGED not_race

\* `if !p.exists() { std::fs::create_dir_all(p)? }` for the parent of target_dir
RaceParent(c) ==
    /\ race_pc[c] = "parent"
    /\ file_system' = MkDirAll(file_system, ParentOf(race_target[c]))
    /\ race_pc' = [race_pc EXCEPT ![c] = "rename"]
    /\ UNCHANGED <<race_target, race_stamp, race_ret>>
    /\ UNCHANGED not_race

\* std::fs::rename(&temp_dir, target_dir).map_err(PackageManagerError::Io)?; Ok(())
RaceRename(c) ==
    /\ race_pc[c] = "rename"
    /\ IF CanRename(file_system, TempOf(c), race_target[c])
       THEN /\ file_system' = RenameDir(file_system, TempOf(c), race_target[c])
            /\ race_ret' = [race_ret EXCEPT ![c] = Succeeded]
       ELSE /\ race_ret' = [race_ret EXCEPT ![c] = Failed("Io", "rename")]
            /\ UNCHANGED file_system
    /\ race_pc' = [race_pc EXCEPT ![c] = "drop"]
    /\ UNCHANGED <<race_target, race_stamp>>
    /\ UNCHANGED not_race

\* TempDirGuard::drop as the call returns
RaceDrop(c) ==
    /\ race_pc[c] = "drop"
    /\ file_system' = IF file_system[TempOf(c)].exists
                       THEN RemoveDirAll(file_system, TempOf(c))
                       ELSE file_system
    /\ race_pc' = [race_pc EXCEPT ![c] = "done"]
    /\ UNCHANGED <<race_target, race_stamp, race_ret>>
    /\ UNCHANGED not_race

NextAtomicRace ==
    \E c \in RaceCalls :
        \/ RaceCreate(c)
        \/ RaceWrite(c)
        \/ RaceRemove(c)
        \/ RaceParent(c)
        \/ RaceRename(c)
        \/ RaceDrop(c)

SpecAtomicRace == InitAtomicRace /\ [][NextAtomicRace]_vars

\* ---- properties of concurrent atomic downloads
\* Every call is under way
Racing == race_pc # <<>>

\* The call returned Ok
RaceSucceeded(c) == race_pc[c] = "done" /\ race_ret[c] = Succeeded

\* What the claim asks of a state: the temporary directories of two calls
\* differ, and the target of a call that succeeded holds the files of its package
RaceKept ==
    \A c \in RaceCalls :
        /\ \A o \in RaceCalls \ {c} : TempOf(c) # TempOf(o)
        /\ RaceSucceeded(c) =>
               file_system[race_target[c]] = [exists |-> TRUE, files |-> {c}]

\* What the claim asks of a step: a step of one call removes neither the
\* temporary nor the target directory of another call
RaceStepKept ==
    \A c \in RaceCalls :
        race_pc'[c] # race_pc[c] =>
            \A o \in RaceCalls \ {c} :
                \A q \in {race_target[o], TempOf(o)} :
                    file_system[q].exists => file_system'[q].exists

\* No target lies under another target
TargetsApart ==
    \A c, o \in RaceCalls : c # o => ~Inside(race_target[c], race_target[o])

Drains == 1..MaxCallers

\* Mutant of LockFree: the queue is not behind a Mutex
LockFreeAlways(holder) == TRUE

\* self.queue.lock().await returns when nobody holds the Mutex
LockFree(holder) == holder = 0

\* A caller has up to MaxTasks tasks to queue; every process_queue call is at
\* the top of its loop
InitDrain ==
    /\ ParallelIdle
    /\ CacheIdle
    /\ DepsIdle
    /\ AnalysisIdle
    /\ FetchIdle
    /\ BatchIdle
    /\ RaceIdle
    /\ shared_queue = <<>>
    /\ queue_lock = 0
    /\ \E n \in 1..MaxTasks, prio \in [1..MaxTasks -> Priorities] :
           producer = [i \in 1..n |-> [package_id |-> i, priority |-> prio[i]]]
    /\ drain_pc = [d \in Drains |-> "lock"]
    /\ drain_task = [d \in Drains |-> NoTask]
    /\ drain_total = [d \in Drains |-> 0]
    /\ drain_handles = [d \in Drains |-> <<>>]
    /\ drain_summary = [d \in Drains |-> NoSummary]

\* queue_download(task): the Mutex is taken, the task is inserted by priority,
\* the Mutex is released
DrainQueueDownload ==
    /\ producer # <<>>
    /\ LockFree(queue_lock)
    /\ LET t == Head(producer)
       IN  shared_queue' = InsertAt(shared_queue, InsertPosition(shared_queue, t), t)
    /\ producer' = Tail(producer)
    /\ UNCHANGED <<queue_lock, drain_pc, drain_task, drain_total, drain_handles,
                   drain_summary>>
    /\ UNCHANGED not_drain

\* process_queue: `let mut queue = self.queue.lock().await;`
DrainLock(d) ==
    /\ drain_pc[d] = "lock"
    /\ LockFree(queue_lock)
    /\ queue_lock' = d
    /\ drain_pc' = [drain_pc EXCEPT ![d] = "front"]
    /\ UNCHANGED <<shared_queue, producer, drain_task, drain_total, drain_handles,
                   drain_summary>>
    /\ UNCHANGED not_drain

\* queue.pop_front() reads the front of the queue
DrainFront(d) ==
    /\ drain_pc[d] = "front"
    /\ drain_task' = [drain_task EXCEPT
                         ![d] = IF shared_queue = <<>> THEN NoTask ELSE Head(shared_queue)]
    /\ drain_pc' = [drain_pc EXCEPT ![d] = "pop"]
    /\ UNCHANGED <<shared_queue, queue_lock, producer, drain_total, drain_handles,
                   drain_summary>>
    /\ UNCHANGED not_drain

\* queue.pop_front() takes the front off the queue; the guard of the Mutex is
\* dropped at the end of the block
DrainPop(d) ==
    /\ drain_pc[d] = "pop"
    /\ shared_queue' = IF shared_queue = <<>> THEN <<>> ELSE Tail(shared_queue)
    /\ queue_lock' = 0
    /\ drain_pc' = [drain_pc EXCEPT ![d] = "task"]
    /\ UNCHANGED <<producer, drain_task, drain_total, drain_handles, drain_summary>>
    /\ UNCHANGED not_drain

\* `let Some(task) = task else { break; }; total_packages += 1;` and the task
\* is spawned: its handle is pushed
DrainSpawn(d) ==
    /\ drain_pc[d] = "task"
    /\ drain_task[d] # NoTask
    /\ drain_total' = [drain_total EXCEPT ![d] = @ + 1]
    /\ drain_handles' = [drain_handles EXCEPT ![d] = Append(@, drain_task[d].package_id)]
    /\ drain_pc' = [drain_pc EXCEPT ![d] = "lock"]
    /\ UNCHANGED <<shared_queue, queue_lock, producer, drain_task, drain_summary>>
    /\ UNCHANGED not_drain

\* The queue was empty: break, the handles are awaited and the summary returned
DrainReturn(d) ==
    /\ drain_pc[d] = "task"
    /\ drain_task[d] = NoTask
    /\ drain_summary' = [drain_summary EXCEPT ![d] = [total_packages |-> drain_total[d]]]
    /\ drain_pc' = [drain_pc EXCEPT ![d] = "done"]
    /\ UNCHANGED <<shared_queue, queue_lock, producer, drain_task, drain_total,
                   drain_handles>>
    /\ UNCHANGED not_drain

NextDrain ==
    \/ DrainQueueDownload
    \/ \E d \in Drains :
        \/ DrainLock(d)
        \/ DrainFront(d)
        \/ DrainPop(d)
        \/ DrainSpawn(d)
        \/ DrainReturn(d)

SpecDrain == InitDrain /\ [][NextDrain]_vars

\* ---- properties of concurrent drains
Draining == drain_pc # <<>>

\* The number of tasks passed to queue_download so far
QueuedSoFar ==
    Cardinality({i \in 1..MaxTasks :
                    \/ \E k \in 1..Len(shared_queue) : shared_queue[k].package_id = i
                    \/ \E d \in Drains :
                         \/ Contains(drain_handles[d], i)
                         \/ drain_pc[d] = "task" /\ drain_task[d].package_id = i})

\* The number of tasks removed from the queue so far
RemovedSoFar == QueuedSoFar - Len(shared_queue)

RECURSIVE TotalOfSummaries(_)
TotalOfSummaries(D) ==
    IF D = {} THEN 0
    ELSE LET d == CHOOSE x \in D : TRUE
         IN  drain_summary[d].total_packages + TotalOfSummaries(D \ {d})

\* C39: no task is spawned twice, by one process_queue call or by two, and when
\* every process_queue call has returned, the total_packages of the summaries
\* add up to the number of tasks removed from the queue.
C39_DrainedOnce ==
    Draining =>
        /\ \A d, e \in Drains :
               \A i \in 1..Len(drain_handles[d]), j \in 1..Len(drain_handles[e]) :
                   drain_handles[d][i] = drain_handles[e][j] => (d = e /\ i = j)
        /\ (\A d \in Drains : drain_pc[d] = "done") =>
               TotalOfSummaries(Drains) = RemovedSoFar

\* C39 witness: every process_queue call has returned, each of them spawned a
\* task, and all the tasks were queued while the calls were running or before
C39_Witness ==
    /\ Draining
    /\ \A d \in Drains : drain_pc[d] = "done" /\ drain_handles[d] # <<>>
    /\ producer = <<>>
    /\ shared_queue = <<>>

====
